---- MODULE Spec2Model ----
(***************************************************************************)
(* Model of the licence-gallery collectors (adelbenfares-blip/licence-      *)
(* gallery).  The repository holds nine variants of one pipeline:           *)
(*                                                                          *)
(*   "img"    src/collector/collect-hotwheels.mjs 1-298   Bing Images       *)
(*   "pw"     src/collector/collect-hotwheels.mjs 300-526 Playwright        *)
(*   "rss"    src/collector/collect-hotwheels.mjs 528-753 Bing RSS + image  *)
(*   "imgo"   src/unnamed/part_001 1-435    Bing Images, "other" fallback   *)
(*   "feedo"  src/unnamed/part_001 437-659  Bing RSS feed, "other" fallback *)
(*   "hard"   src/unnamed/part_002          hard-relevance, fail-soft       *)
(*   "feeda"  src/unnamed/part_003 1-252    Bing RSS feed, allow-list       *)
(*   "cdn"    src/unnamed/part_003 254-584  CDN-first, fail-soft            *)
(*   "pw2"    src/unnamed/part_004          Playwright, second version      *)
(*                                                                          *)
(* Strings are modelled over a finite vocabulary of tokens.  A URL-like     *)
(* value is a record                                                        *)
(*    [kind, host, path, query, hash]                                       *)
(* kind = "abs": a string that `new URL()` parses (https://host/path?q#h);  *)
(* kind = "rel": a string that `new URL()` rejects (/path?q#h, or "");      *)
(* kind = "num": a truthy JSON value that is not a string.                  *)
(* Substring tests (String.includes) look a needle up in the set of         *)
(* needles each token contains (SubTok); regular expressions are evaluated  *)
(* on the token structure with per-token capture tables.                    *)
(***************************************************************************)
EXTENDS Integers, Sequences, FiniteSets, TLC

VARIABLES
  variant,   \* which collector script runs
  pc,        \* control position of main()
  cands,     \* accumulated candidates (allCandidates / all / collected / found / results)
  quick,     \* list after the quick image dedupe (img, imgo)
  deduped,   \* list after the variant's dedupe
  out,       \* content of the output JSON file (a list of items)
  written,   \* number of writes of the output file in this run
  exitCode,  \* process exit status: -1 while running
  body,      \* raw search body under parse (parser specification)
  parsed,    \* result of the parser on body (parser specification)
  reqs,      \* the search requests made so far: outcome and candidates gained
  urls,      \* candidateUrls of the feed variants still to resolve
  raised,    \* what main() rejected with: "none", "write", "log" or "other"
  pace,      \* last: the last of request and sleep; unpaced: some request was
             \* issued with no sleep since the request before it
  failed,    \* image URLs whose download returned null (part_001)
  probe,     \* the product URLs handed to the classifier (classifier specification)
  verdict    \* the retailer the variant's classifier returned for each of them

vars ==
  <<variant, pc, cands, quick, deduped, out, written, exitCode, body, parsed, reqs, urls,
    raised, pace, failed, probe, verdict>>

-----------------------------------------------------------------------------
(* Bounds of the model *)

\* longest candidate list a run accumulates
MaxCands == 3
\* longest raw body handed to a parser (number of blobs / items)
MaxBody == 3

-----------------------------------------------------------------------------
(* Vocabulary: strings and URL-like values *)

Null == "<null>"

U(h, p, q, f) == [kind |-> "abs", host |-> h, path |-> p, query |-> q, hash |-> f]
Rel(p, q, f) == [kind |-> "rel", host |-> "", path |-> p, query |-> q, hash |-> f]
\* the empty string ""
EmptyStr == Rel(<<>>, <<>>, "")
\* a truthy JSON value that is not a string, e.g. the number 5
NumVal == [kind |-> "num", host |-> "", path |-> <<>>, query |-> <<>>, hash |-> ""]

IsString(u) == u.kind # "num"
\* JavaScript truthiness of a URL-like value: only "" is falsy here
Truthy(u) == u # EmptyStr

\* needles (lower case) that occur inside the lower-cased token
SubTok(t) ==
  CASE t = "www.next.co.uk"        -> {"next.co.uk"}
    [] t = "www2.hm.com"           -> {"hm.com", "www2.hm.com"}
    [] t = "www.zara.com"          -> {"zara.com"}
    [] t = "www.asos.com"          -> {"asos.com"}
    [] t = "www.pinterest.com"     -> {"pinterest.com", "pin"}
    [] t = "shop.example.test"     -> {"shop"}
    [] t = "ref=next.co.uk"        -> {"next.co.uk"}
    [] t = "ref=hm.com"            -> {"hm.com"}
    [] t = "style"                 -> {"style"}
    [] t = "pin"                   -> {"pin"}
    [] t = "productpage.0101.html" -> {"product", "productpage.", "0101"}
    [] t = "hot-wheels-tee"        -> {"hot-wheels", "hot", "wheel", "wheels", "tee"}
    [] t = "hot-wheels-hoodie"     -> {"hot-wheels", "hot", "wheel", "wheels", "hoodie"}
    [] t = "hot-wheels-logo"       -> {"hot-wheels", "hot", "wheel", "wheels", "logo"}
    [] t = "hot-wheels-cars"       -> {"hot-wheels", "hot", "wheel", "wheels"}
    [] t = "w=hot-wheels"          -> {"hot-wheels", "hot", "wheel", "wheels"}
    [] t = "img.hotwheels.test"    -> {"hotwheels", "hot", "wheel", "wheels"}
    [] t = "xcdn.next.co.uk"       -> {"next.co.uk", "xcdn.next.co.uk"}
    [] t = "en.wikipedia.org"      -> {"wikipedia.org"}
    [] t = "a_2160.jpg"            -> {"2160", ".jpg"}
    [] t = "a.jpg"                 -> {".jpg"}
    [] t = "b.jpg"                 -> {".jpg"}
    [] t = "c.png"                 -> {".png"}
    [] t = "thumb"                 -> {"thumb"}
    [] t = "imwidth=750"           -> {"750", "width=750"}
    [] t = "wid=300"               -> {}
    [] OTHER                       -> {}

\* String.prototype.toLowerCase on one token
LowerTok(t) ==
  CASE t = "K7" -> "k7"
    [] t = "A9" -> "a9"
    [] t = "STYLE" -> "style"
    [] OTHER -> t

\* suffixes of interest a token ends with (String.endsWith)
SufTok(t) ==
  CASE t \in {"a.jpg", "b.jpg", "a_2160.jpg"} -> {".jpg"}
    [] t = "c.png" -> {".png"}
    [] t = "d.webp" -> {".webp"}
    [] OTHER -> {}

SeqToSet(s) == {s[i] : i \in 1..Len(s)}

\* all tokens of the string, in no order (for substring tests)
TokensOf(u) ==
  (IF u.kind = "abs" THEN {u.host} ELSE {})
    \cup SeqToSet(u.path) \cup SeqToSet(u.query)
    \cup (IF u.hash = "" THEN {} ELSE {u.hash})

\* s.toLowerCase().includes(needle), s a string
Includes(u, needle) == \E t \in TokensOf(u) : needle \in SubTok(LowerTok(t))

\* `${a} ${b}`.toLowerCase().includes(needle): a template string also renders
\* a non-string value, so no TypeError here
IncludesPair(a, b, needle) == Includes(a, needle) \/ Includes(b, needle)

Last(s) == s[Len(s)]

\* s.endsWith(ext): the string ends with its last path segment only when it
\* has neither query nor hash
EndsWith(u, ext) ==
  /\ u.query = <<>> /\ u.hash = ""
  /\ Len(u.path) > 0
  /\ ext \in SufTok(LowerTok(Last(u.path)))

\* s.includes(ext + "?"): the last path segment ends with ext and a query follows
IncludesExtQuery(u, ext) ==
  /\ u.query # <<>>
  /\ Len(u.path) > 0
  /\ ext \in SufTok(LowerTok(Last(u.path)))

RECURSIVE Slashed(_)
\* "/a/b/c" as tokens: <<"/", "a", "/", "b", "/", "c">>
Slashed(p) == IF p = <<>> THEN <<>> ELSE <<"/", Head(p)>> \o Slashed(Tail(p))

\* URL.pathname of a parsed URL: "/" when the path is empty
Pathname(u) == IF u.path = <<>> THEN <<"/">> ELSE Slashed(u.path)

\* the string as a token sequence
Render(u) ==
  (IF u.kind = "abs" THEN <<"https://", u.host>> ELSE <<>>)
    \o (IF u.kind = "abs" THEN Pathname(u) ELSE Slashed(u.path))
    \o (IF u.query = <<>> THEN <<>> ELSE <<"?">> \o u.query)
    \o (IF u.hash = "" THEN <<>> ELSE <<"#", u.hash>>)

LowerSeq(s) == [i \in 1..Len(s) |-> LowerTok(s[i])]

-----------------------------------------------------------------------------
(* Regular expressions of styleKey, on the token structure *)

Min(S) == CHOOSE x \in S : \A y \in S : x <= y

\* /productpage\.(\d+)\.html/i within one token
HmId(t) ==
  CASE LowerTok(t) = "productpage.0101.html" -> "0101"
    [] LowerTok(t) = "productpage.0202.html" -> "0202"
    [] OTHER -> ""

\* /p(\d+)\.html/i within one token
ZaraP(t) ==
  CASE LowerTok(t) = "p0303.html" -> "0303"
    [] LowerTok(t) = "hot-wheels-tee-p0303.html" -> "0303"
    [] OTHER -> ""

\* (\d+) at the start of one token
DigitsPrefix(t) ==
  CASE t = "101" -> "101"
    [] t = "55" -> "55"
    [] t = "77-tee" -> "77"
    [] OTHER -> ""

\* /productid=(\d+)/i within one token
ProductIdCap(t) ==
  CASE LowerTok(t) = "productid=77" -> "77"
    [] OTHER -> ""

\* caps[i] is what the expression captures in token i: the first capture,
\* "" when no token matches
FirstCap(caps) ==
  LET I == {i \in 1..Len(caps) : caps[i] # ""}
  IN IF I = {} THEN "" ELSE caps[Min(I)]

\* positions i of the path with segment i equal (ignoring case) to word and
\* at least `after` segments behind it
SegAt(p, word, after) ==
  {i \in 1..Len(p) : LowerTok(p[i]) = word /\ i + after <= Len(p)}

-----------------------------------------------------------------------------
(* Variant "img": src/collector/collect-hotwheels.mjs lines 1-298 *)

RETAILERS_img ==
  << [key |-> "zara", match |-> {"zara.com"}],
     [key |-> "hm", match |-> {"hm.com", "www2.hm.com"}],
     [key |-> "next", match |-> {"next.co.uk"}],
     [key |-> "asos", match |-> {"asos.com"}],
     [key |-> "zalando", match |-> {"zalando.co.uk", "zalando.com"}],
     [key |-> "pinterest", match |-> {"pinterest.com", "pinterest.co.uk", "pinterest.fr"}],
     [key |-> "boxlunch", match |-> {"boxlunch.com"}],
     [key |-> "pacsun", match |-> {"pacsun.com"}],
     [key |-> "bucketsandspades", match |-> {"bucketsandspades.com.au"}] >>

Keys(table) == {table[i].key : i \in 1..Len(table)}

\* the mutated table walk: the last matching rule wins instead of the first
FirstRule_last(table, u, fallback) ==
  LET I == {i \in 1..Len(table) : \E m \in table[i].match : Includes(u, m)}
  IN IF I = {} THEN fallback ELSE table[CHOOSE i \in I : \A j \in I : j <= i].key

\* for (const r of table) if (r.match.some((m) => u.includes(m))) return r.key;
\* the key of the first rule with a matcher inside the whole URL text
FirstRule(table, u, fallback) ==
  LET I == {i \in 1..Len(table) : \E m \in table[i].match : Includes(u, m)}
  IN IF I = {} THEN fallback ELSE table[Min(I)].key

\* (url || "").toLowerCase() throws a TypeError on a truthy non-string
normalizeRetailer_img(url) == FirstRule(RETAILERS_img, url, Null)

stripQueryHash(url) ==
  IF url.kind = "abs" THEN [url EXCEPT !.query = <<>>, !.hash = ""] ELSE url

\* the text /\/pin\/([^/]+)/ captures behind segment i: the next segment and,
\* when that is the last one of an unparsed string, the query and hash too
PinCapture(u, i) ==
  <<u.path[i + 1]>>
    \o (IF i + 1 = Len(u.path)
        THEN (IF u.query = <<>> THEN <<>> ELSE <<"?">> \o u.query)
               \o (IF u.hash = "" THEN <<>> ELSE <<"#", u.hash>>)
        ELSE <<>>)

\* the retailer-specific branches of styleKey, shared by both Bing Images
\* variants: <<>> when no branch returns
StyleBranches(retailer, u) ==
  LET hm == FirstCap([i_ \in 1..Len(Render(u)) |-> HmId(Render(u)[i_])])
      nx == SegAt(u.path, "style", 2)
      z1 == FirstCap([i_ \in 1..Len(Render(u)) |-> ZaraP(Render(u)[i_])])
      z2 == {i \in SegAt(u.path, "product", 1) : DigitsPrefix(u.path[i + 1]) # ""}
      a1 == {i \in SegAt(u.path, "prd", 1) : DigitsPrefix(u.path[i + 1]) # ""}
      a2 == FirstCap([i_ \in 1..Len(Render(u)) |-> ProductIdCap(Render(u)[i_])])
      pn == SegAt(u.path, "pin", 1)
  IN CASE retailer = "hm" /\ hm # "" -> <<"hm", ":", hm>>
       [] retailer = "next" /\ nx # {} -> <<"next", ":", LowerTok(u.path[Min(nx) + 2])>>
       [] retailer = "zara" /\ z1 # "" -> <<"zara", ":", "p", z1>>
       [] retailer = "zara" /\ z1 = "" /\ z2 # {} ->
            <<"zara", ":", DigitsPrefix(u.path[Min(z2) + 1])>>
       [] retailer = "asos" /\ a1 # {} -> <<"asos", ":", DigitsPrefix(u.path[Min(a1) + 1])>>
       [] retailer = "asos" /\ a1 = {} /\ a2 # "" -> <<"asos", ":", a2>>
       [] retailer = "pinterest" /\ pn # {} -> <<"pinterest", ":">> \o PinCapture(u, Min(pn))
       [] OTHER -> <<>>

styleKey_img(retailer, productUrl) ==
  LET u == stripQueryHash(productUrl)
      b == StyleBranches(retailer, u)
  IN IF b # <<>> THEN b
     ELSE IF u.kind = "abs" THEN <<retailer, ":">> \o LowerSeq(Pathname(u))
     ELSE <<retailer, ":">> \o LowerSeq(Render(u))

B2N(b) == IF b THEN 1 ELSE 0

\* (imageUrl || "").toLowerCase() throws a TypeError on a truthy non-string
imageScore_img(imageUrl) ==
  4 * B2N(Includes(imageUrl, "original"))
  + 3 * B2N(Includes(imageUrl, "2160") \/ Includes(imageUrl, "imwidth=2160"))
  + 2 * B2N(Includes(imageUrl, "1260") \/ Includes(imageUrl, "imwidth=1260"))
  + 1 * B2N(Includes(imageUrl, "750") \/ Includes(imageUrl, "width=750"))
  - 2 * B2N(Includes(imageUrl, "thumb") \/ Includes(imageUrl, "thumbnail"))
  + 1 * B2N(EndsWith(imageUrl, ".jpg") \/ IncludesExtQuery(imageUrl, ".jpg"))

apparelHints_img ==
  {"tshirt", "t-shirt", "tee", "hoodie", "sweatshirt", "jumper", "jogger", "joggers",
   "pyjama", "pajama", "shirt", "top", "set"}

HasBrandPair(a, b) ==
  \/ IncludesPair(a, b, "hot-wheels")
  \/ IncludesPair(a, b, "hotwheels")
  \/ (IncludesPair(a, b, "hot") /\ IncludesPair(a, b, "wheels"))

\* the mutated Pinterest test: the brand alone is enough
pinterestLooksRelevant_img_brandOnly(productUrl, imageUrl) ==
  HasBrandPair(productUrl, imageUrl)

pinterestLooksRelevant_img(productUrl, imageUrl) ==
  /\ HasBrandPair(productUrl, imageUrl)
  /\ \E k \in apparelHints_img : IncludesPair(productUrl, imageUrl, k)

-----------------------------------------------------------------------------
(* Deduplication, variant "img" *)

Cand(r, p, i) == [retailer |-> r, product_url |-> p, image_url |-> i]

RECURSIVE KeepFrom(_, _, _)
\* the elements items[j], j >= i, with keep[j], in order (Array.prototype.filter)
KeepFrom(items, keep, i) ==
  IF i > Len(items) THEN <<>>
  ELSE (IF keep[i] THEN <<items[i]>> ELSE <<>>) \o KeepFrom(items, keep, i + 1)

\* items.filter(it => { if (seen.has(K(it))) return false; seen.add(K(it)); return true; })
\* keys[i] is K(items[i]); an element is dropped exactly when an earlier
\* element has its key
SeenFilter(items, keys) ==
  KeepFrom(items,
           [i \in 1..Len(items) |-> \A j \in 1..(i - 1) : keys[j] # keys[i]],
           1)

ImageOf(it) == it.image_url

\* the mutated quick dedupe: the last candidate of every image URL is kept
QuickImageDedupe_last(items) ==
  KeepFrom(items,
           [i \in 1..Len(items) |->
              \A j \in (i + 1)..Len(items) : ImageOf(items[j]) # ImageOf(items[i])],
           1)

\* the "quick image dedupe" block of main(): first candidate of every image URL
QuickImageDedupe(items) ==
  SeenFilter(items, [i \in 1..Len(items) |-> ImageOf(items[i])])

\* position of key in the Map (insertion order), 0 when absent
MapIndex(map, key) ==
  LET I == {i \in 1..Len(map) : map[i].key = key}
  IN IF I = {} THEN 0 ELSE Min(I)

\* the mutated Map.set: a new entry even when the key is already there
MapSet_append(map, key, val) == Append(map, [key |-> key, val |-> val])

\* Map.prototype.set: a new key goes last, an existing key keeps its place
MapSet(map, key, val) ==
  LET i == MapIndex(map, key)
  IN IF i = 0 THEN Append(map, [key |-> key, val |-> val])
     ELSE [map EXCEPT ![i] = [key |-> key, val |-> val]]

MapValues(map) == [i \in 1..Len(map) |-> map[i].val]

\* the mutated test: the last candidate of a key wins
Better_always(score, existing) == TRUE

\* the mutated test: a candidate of equal score replaces the kept one
Better_orEqual(score, existing) == score >= existing

\* the mutated test: the first candidate of a key stays, whatever the scores
Better_never(score, existing) == FALSE

\* score > existing._score: the test that lets a candidate replace the one
\* kept for its key
Better(score, existing) == score > existing

RECURSIVE StyleFold_img(_, _)
\* the loop of dedupeByStyleKeepBest: map holds {...it, _score}
StyleFold_img(items, map) ==
  IF items = <<>> THEN map
  ELSE LET it == Head(items)
           key == styleKey_img(it.retailer, it.product_url)
           score == imageScore_img(it.image_url)
           i == MapIndex(map, key)
       IN IF it.retailer \in {Null, ""} \/ ~Truthy(it.product_url) \/ ~Truthy(it.image_url)
          THEN StyleFold_img(Tail(items), map)
          ELSE IF i = 0 \/ Better(score, map[i].val._score)
          THEN StyleFold_img(Tail(items),
                 MapSet(map, key, [item |-> it, _score |-> score]))
          ELSE StyleFold_img(Tail(items), map)

\* the mutated last step: the items are returned with their _score
DropScore_keep(vals) ==
  [i \in 1..Len(vals) |->
     [retailer |-> vals[i].item.retailer, product_url |-> vals[i].item.product_url,
      image_url |-> vals[i].item.image_url, _score |-> vals[i]._score]]

\* Array.from(map.values()).map(({ _score, ...rest }) => rest)
DropScore(vals) == [i \in 1..Len(vals) |-> vals[i].item]

dedupeByStyleKeepBest_img(items) == DropScore(MapValues(StyleFold_img(items, <<>>)))

\* imageScore / styleKey throw a TypeError on a value that is not a string
StyleThrows(items) ==
  \E i \in 1..Len(items) : ~IsString(items[i].image_url) \/ ~IsString(items[i].product_url)

\* no truncation: the whole list
Slice_all(s, n) == s

\* arr.slice(0, n)
Slice(s, n) == SubSeq(s, 1, IF Len(s) < n THEN Len(s) ELSE n)

-----------------------------------------------------------------------------
(* Variant "imgo": src/unnamed/part_001 lines 1-435 *)

RETAILERS_imgo ==
  << [key |-> "zara", match |-> {"zara.com"}],
     [key |-> "hm", match |-> {"hm.com", "www2.hm.com", "lp2.hm.com", "image.hm.com"}],
     [key |-> "next", match |-> {"next.co.uk", "xcdn.next.co.uk"}],
     [key |-> "asos", match |-> {"asos.com"}],
     [key |-> "zalando", match |-> {"zalando.co.uk", "zalando.com"}],
     [key |-> "pinterest", match |-> {"pinterest.com", "pinimg.com"}],
     [key |-> "boxlunch", match |-> {"boxlunch.com"}],
     [key |-> "pacsun", match |-> {"pacsun.com"}],
     [key |-> "bucketsandspades", match |-> {"bucketsandspades.com.au"}] >>

APPAREL_TERMS_imgo ==
  {"tshirt", "t-shirt", "tee", "shirt", "top", "hoodie", "sweatshirt", "jumper",
   "sweater", "jogger", "joggers", "tracksuit", "set", "pyjama", "pyjamas", "pajama",
   "pajamas", "jacket", "coat", "pants", "trousers", "shorts", "cap", "hat", "beanie",
   "kids", "boy", "boys", "girl", "girls", "toddler", "baby"}

\* the mutated classifier: an unknown domain is classified as nothing at all
normalizeRetailer_imgo_nofallback(url) == FirstRule(RETAILERS_imgo, url, "")

normalizeRetailer_imgo(url) == FirstRule(RETAILERS_imgo, url, "other")

\* containsAny over the template string `${productUrl} ${imageUrl}`
containsAnyPair(a, b, needles) == \E n \in needles : IncludesPair(a, b, n)

pinterestLooksRelevant_imgo(productUrl, imageUrl) ==
  HasBrandPair(productUrl, imageUrl) /\ containsAnyPair(productUrl, imageUrl, APPAREL_TERMS_imgo)

otherLooksRelevant(productUrl, imageUrl) ==
  LET apparelIntent == containsAnyPair(productUrl, imageUrl, APPAREL_TERMS_imgo)
      ecommerceHints ==
        containsAnyPair(productUrl, imageUrl,
          {"/product", "/products", "product", "sku", "style", "item", "pid", "variant",
           "shop", "store", "cart"})
      junk ==
        containsAnyPair(productUrl, imageUrl,
          {"wikipedia.org", "merriam-webster.com", "dictionary.", "cambridge.org/dictionary",
           "thefreedictionary.com", "wordreference.com", "fandom.com/wiki", "logo", "vector",
           "svg"})
  IN HasBrandPair(productUrl, imageUrl) /\ (apparelIntent \/ ecommerceHints) /\ ~junk

styleKey_imgo(retailer, productUrl) ==
  LET u == stripQueryHash(productUrl)
      b == StyleBranches(retailer, u)
  IN IF b # <<>> THEN b
     ELSE IF u.kind = "abs" THEN LowerSeq(<<retailer, ":", u.host>> \o Pathname(u))
     ELSE <<retailer, ":">> \o LowerSeq(Render(u))

imageScore_imgo(imageUrl) ==
  4 * B2N(Includes(imageUrl, "original"))
  + 3 * B2N(Includes(imageUrl, "2160") \/ Includes(imageUrl, "imwidth=2160"))
  + 2 * B2N(Includes(imageUrl, "1260") \/ Includes(imageUrl, "imwidth=1260"))
  + 1 * B2N(Includes(imageUrl, "750") \/ Includes(imageUrl, "width=750"))
  - 2 * B2N(Includes(imageUrl, "thumb") \/ Includes(imageUrl, "thumbnail"))
  + 1 * B2N(\/ EndsWith(imageUrl, ".jpg") \/ IncludesExtQuery(imageUrl, ".jpg")
            \/ EndsWith(imageUrl, ".png") \/ IncludesExtQuery(imageUrl, ".png")
            \/ Includes(imageUrl, "webp"))

RECURSIVE StyleFold_imgo(_, _)
StyleFold_imgo(items, map) ==
  IF items = <<>> THEN map
  ELSE LET it == Head(items)
           key == styleKey_imgo(it.retailer, it.product_url)
           score == imageScore_imgo(it.image_url)
           i == MapIndex(map, key)
       IN IF i = 0 \/ Better(score, map[i].val._score)
          THEN StyleFold_imgo(Tail(items),
                 MapSet(map, key, [item |-> it, _score |-> score]))
          ELSE StyleFold_imgo(Tail(items), map)

dedupeByStyleKeepBest_imgo(items) == DropScore(MapValues(StyleFold_imgo(items, <<>>)))

RECURSIVE InsertDesc(_, _)
\* x placed behind every element whose score is not lower (a stable sort step)
InsertDesc(sorted, x) ==
  IF sorted = <<>> THEN <<x>>
  ELSE IF imageScore_imgo(Head(sorted).image_url) >= imageScore_imgo(x.image_url)
       THEN <<Head(sorted)>> \o InsertDesc(Tail(sorted), x)
       ELSE <<x>> \o sorted

\* the list is left in its order
SortByScoreDesc_none(items, acc) == acc \o items

RECURSIVE SortByScoreDesc(_, _)
\* deduped.sort((a, b) => imageScore(b.image_url) - imageScore(a.image_url)):
\* Array.prototype.sort is stable
SortByScoreDesc(items, acc) ==
  IF items = <<>> THEN acc
  ELSE SortByScoreDesc(Tail(items), InsertDesc(acc, Head(items)))

\* PER_RETAILER_CAP, scaled to the model's list lengths.  Source: other 140,
\* pinterest 60, every other retailer 120, all of them below MAX_ITEMS = 200;
\* the scaled caps keep every cap below the scaled MAX_ITEMS
CapOther == 1
CapPinterest == 1
CapDefault == 1

PER_RETAILER_CAP(r) ==
  CASE r = "other" -> CapOther
    [] r = "pinterest" -> CapPinterest
    [] OTHER -> CapDefault

RECURSIVE CapFold(_, _)
\* the loop of applyPerRetailerCap; counts is the number of items of each
\* retailer pushed so far, read off the output list
CapFold(items, outp) ==
  IF items = <<>> THEN outp
  ELSE LET it == Head(items)
           cap == PER_RETAILER_CAP(it.retailer)
           count == Cardinality({j \in 1..Len(outp) : outp[j].retailer = it.retailer})
       IN IF count >= cap
          THEN CapFold(Tail(items), outp)
          ELSE CapFold(Tail(items), Append(outp, it))

\* the mutated cap: every item is kept
applyPerRetailerCap_none(items) == items

applyPerRetailerCap(items) == CapFold(items, <<>>)

extFromUrl(u) ==
  IF u.kind = "abs" /\ Len(u.path) > 0 /\ ".png" \in SufTok(LowerTok(Last(u.path))) THEN ".png"
  ELSE IF u.kind = "abs" /\ Len(u.path) > 0 /\ ".webp" \in SufTok(LowerTok(Last(u.path)))
  THEN ".webp"
  ELSE ".jpg"

\* the local path downloadImage returns on success:
\* images/hot-wheels/<sha1(imageUrl)><ext>; the hash is one-to-one here
LocalPath(imageUrl) ==
  Rel(<<"images", "hot-wheels", "sha1">> \o Render(imageUrl) \o <<extFromUrl(imageUrl)>>,
      <<>>, "")

-----------------------------------------------------------------------------
(* Variants "rss" (collect-hotwheels.mjs 528-753), "feeda" (part_003 1-252), *)
(* "feedo" (part_001 437-659), "pw" (collect-hotwheels.mjs 300-526) and      *)
(* "pw2" (part_004): classification and the Map-based dedupe                 *)

ALLOWED_RETAILER_MATCH ==
  << [key |-> "next", match |-> {"next.co.uk"}],
     [key |-> "hm", match |-> {"hm.com", "www2.hm.com"}],
     [key |-> "zara", match |-> {"zara.com"}],
     [key |-> "asos", match |-> {"asos.com"}],
     [key |-> "zalando", match |-> {"zalando.co.uk", "zalando.com"}],
     [key |-> "pinterest", match |-> {"pinterest.com", "pinterest.co.uk", "pinterest.fr"}] >>

normalizeRetailer_rss(url) == FirstRule(ALLOWED_RETAILER_MATCH, url, Null)

normalizeRetailer_feeda(url) == FirstRule(ALLOWED_RETAILER_MATCH, url, Null)

\* the if-chain of part_001 lines 488-497, in its order
FEEDO_RULES ==
  << [key |-> "next", match |-> {"next.co.uk"}],
     [key |-> "hm", match |-> {"hm.com", "www2.hm.com"}],
     [key |-> "zara", match |-> {"zara.com"}],
     [key |-> "pinterest", match |-> {"pinterest."}],
     [key |-> "asos", match |-> {"asos.com"}],
     [key |-> "zalando", match |-> {"zalando."}] >>

normalizeRetailer_feedo(url) == FirstRule(FEEDO_RULES, url, "other")

URL_BLOCKLIST_SUBSTR ==
  {"dictionary", "definition", "wordreference", "merriam-webster",
   "cambridge.org/dictionary", "thefreedictionary", "wikipedia.org"}

isBlockedUrl(url) == \E bad \in URL_BLOCKLIST_SUBSTR : Includes(url, bad)

\* `${item.retailer}::${item.product_url}`
PairKey(it) == <<it.retailer, it.product_url>>

RECURSIVE MapFoldLast_first(_, _, _)
\* the mutated loop: if (!map.has(key)) map.set(key, item)
MapFoldLast_first(items, skip, map) ==
  IF items = <<>> THEN map
  ELSE IF skip[Len(skip) - Len(items) + 1] \/ MapIndex(map, PairKey(Head(items))) # 0
       THEN MapFoldLast_first(Tail(items), skip, map)
       ELSE MapFoldLast_first(Tail(items), skip, MapSet(map, PairKey(Head(items)), Head(items)))

RECURSIVE MapFoldLast(_, _, _)
\* for (const item of list) { if (skip) continue; map.set(key, item); }
MapFoldLast(items, skip, map) ==
  IF items = <<>> THEN map
  ELSE IF skip[Len(skip) - Len(items) + 1]
       THEN MapFoldLast(Tail(items), skip, map)
       ELSE MapFoldLast(Tail(items), skip, MapSet(map, PairKey(Head(items)), Head(items)))

FalsyRetailer(r) == r \in {Null, ""}

\* dedupe of "pw" (lines 319-326) and "feedo" (part_001 479-486): the retailer is not tested
dedupe_pw(list) ==
  MapValues(MapFoldLast(list,
    [i \in 1..Len(list) |-> ~Truthy(list[i].image_url) \/ ~Truthy(list[i].product_url)],
    <<>>))

dedupe_feedo(list) ==
  MapValues(MapFoldLast(list,
    [i \in 1..Len(list) |-> ~Truthy(list[i].image_url) \/ ~Truthy(list[i].product_url)],
    <<>>))

\* the mutated dedupe: the list is written as collected
dedupe_rss_none(list) == list

\* dedupe of "rss" (lines 591-599) and "feeda" (part_003 67-74)
dedupe_rss(list) ==
  MapValues(MapFoldLast(list,
    [i \in 1..Len(list) |->
       FalsyRetailer(list[i].retailer) \/ ~Truthy(list[i].product_url)
         \/ ~Truthy(list[i].image_url)],
    <<>>))

dedupe_feeda(list) ==
  MapValues(MapFoldLast(list,
    [i \in 1..Len(list) |->
       ~Truthy(list[i].image_url) \/ ~Truthy(list[i].product_url)
         \/ FalsyRetailer(list[i].retailer)],
    <<>>))

\* dedupe of "pw2" (part_004 11-19): if (!m.has(key)) m.set(key, x) keeps the first
dedupe_pw2(list) ==
  LET valid == KeepFrom(list,
                 [i \in 1..Len(list) |->
                    Truthy(list[i].image_url) /\ Truthy(list[i].product_url)], 1)
  IN SeenFilter(valid, [i \in 1..Len(valid) |-> PairKey(valid[i])])

\* url.split("?")[0] || url
normalizeImage(url) ==
  LET cut == [url EXCEPT !.query = <<>>, !.hash = ""]
  IN IF url.query = <<>> THEN url
     ELSE IF cut.kind = "rel" /\ cut.path = <<>> THEN url
     ELSE cut

-----------------------------------------------------------------------------
(* Variant "hard": src/unnamed/part_002 *)

\* the domains dom with host === dom or host.endsWith("." + dom)
HostDomains(h) ==
  CASE h = "www.next.co.uk"     -> {"www.next.co.uk", "next.co.uk"}
    [] h = "www2.hm.com"        -> {"www2.hm.com", "hm.com"}
    [] h = "www.zara.com"       -> {"www.zara.com", "zara.com"}
    [] h = "www.asos.com"       -> {"www.asos.com", "asos.com"}
    [] h = "www.pinterest.com"  -> {"www.pinterest.com", "pinterest.com"}
    [] h = "xcdn.next.co.uk"    -> {"xcdn.next.co.uk", "next.co.uk"}
    [] h = "i.pinimg.com"       -> {"i.pinimg.com"}
    [] h = "www.notnext.co.uk"  -> {"www.notnext.co.uk", "notnext.co.uk"}
    [] OTHER                    -> {h}

\* new URL(u).hostname.toLowerCase(), "" when the URL does not parse
domainOf(u) == IF u.kind = "abs" THEN LowerTok(u.host) ELSE ""

RETAILERS_hard ==
  << [key |-> "zara", domains |-> {"zara.com"}],
     [key |-> "hm", domains |-> {"hm.com", "www2.hm.com"}],
     [key |-> "next", domains |-> {"next.co.uk"}],
     [key |-> "asos", domains |-> {"asos.com"}],
     [key |-> "zalando",
      domains |-> {"zalando.co.uk", "zalando.com", "zalando.de", "zalando.fr",
                   "zalando.nl", "zalando.it", "zalando.es", "zalando.be"}],
     [key |-> "boxlunch", domains |-> {"boxlunch.com"}],
     [key |-> "pacsun", domains |-> {"pacsun.com"}],
     [key |-> "bucketsandspades", domains |-> {"bucketsandspades.co.uk", "bucketsandspades.com"}],
     [key |-> "pinterest", domains |-> {"pinterest.com"}] >>

matchesDomain(url, domains) ==
  LET d == domainOf(url) IN d # "" /\ HostDomains(d) \cap domains # {}

\* the key of the first retailer whose domains match the hostname, Null when none
retailerForUrl_hard(url) ==
  LET I == {i \in 1..Len(RETAILERS_hard) : matchesDomain(url, RETAILERS_hard[i].domains)}
  IN IF I = {} THEN Null ELSE RETAILERS_hard[Min(I)].key

\* /\/\d+\.html/ within one path segment
DigitsHtml(t) == LowerTok(t) \in {"0303.html"}

\* /[a-z0-9]+/i at the start of one path segment
AlnumPrefix(t) == t \notin {"", "-", "_"}

\* the segment named word is followed by a "/" (another segment)
HasSegSlash(u, word) == SegAt(u.path, word, 1) # {}

\* retailer.productUrlPatterns.some(rx => rx.test(url)), by retailer key
isLikelyProductUrl(url, key) ==
  CASE key = "zara" ->
         (\E i \in 1..Len(url.path) : DigitsHtml(url.path[i])) \/ HasSegSlash(url, "product")
    [] key = "hm" -> FirstCap([i_ \in 1..Len(Render(url)) |-> HmId(Render(url)[i_])]) # ""
    [] key = "next" ->
         \E i \in SegAt(url.path, "style", 2) :
            AlnumPrefix(url.path[i + 1]) /\ AlnumPrefix(url.path[i + 2])
    [] key = "asos" ->
         \E i \in SegAt(url.path, "prd", 1) : DigitsPrefix(url.path[i + 1]) # ""
    [] key = "zalando" -> HasSegSlash(url, "p") \/ HasSegSlash(url, "t")
    [] key \in {"boxlunch", "pacsun"} -> HasSegSlash(url, "product")
    [] key = "bucketsandspades" -> HasSegSlash(url, "products")
    [] key = "pinterest" -> HasSegSlash(url, "pin")
    [] OTHER -> FALSE

\* the name of a query parameter
ParamName(t) ==
  CASE t = "imwidth=750" -> "imwidth"
    [] t = "imwidth=2160" -> "imwidth"
    [] t = "wid=300" -> "wid"
    [] OTHER -> t

\* the mutated normUrl: only the first of the image parameters goes
normUrl_hard_first(u) ==
  IF u.kind # "abs" THEN u
  ELSE LET I == {i \in 1..Len(u.query) : ParamName(u.query[i]) \in {"imwidth", "wid", "hei"}}
       IN [u EXCEPT !.hash = "",
                    !.query = IF I = {} THEN u.query
                              ELSE SubSeq(u.query, 1, Min(I) - 1)
                                     \o SubSeq(u.query, Min(I) + 1, Len(u.query))]

\* normUrl of part_002: the hash and the parameters imwidth, wid, hei go
normUrl_hard(u) ==
  IF u.kind # "abs" THEN u
  ELSE [u EXCEPT !.hash = "",
                 !.query = SelectSeq(u.query,
                             LAMBDA t : ParamName(t) \notin {"imwidth", "wid", "hei"})]

\* stripImageParams (part_002) and stripParams (part_003): query and hash go
stripImageParams(u) == IF u.kind # "abs" THEN u ELSE [u EXCEPT !.query = <<>>, !.hash = ""]

\* normUrl of part_003: only the hash goes
normUrl_cdn(u) == IF u.kind # "abs" THEN u ELSE [u EXCEPT !.hash = ""]

\* {...it, product_url: product, image_url: img}
Normed_hard(it) ==
  [it EXCEPT !.product_url = normUrl_hard(it.product_url),
             !.image_url = normUrl_hard(it.image_url)]

\* `${stripImageParams(img)}::${product}`
Key_hard(n) == <<stripImageParams(n.image_url), n.product_url>>

\* dedupe of part_002 lines 294-309
dedupe_hard(items) ==
  LET normed == [i \in 1..Len(items) |-> Normed_hard(items[i])]
      valid == KeepFrom(normed,
                 [i \in 1..Len(normed) |->
                    Truthy(normed[i].product_url) /\ Truthy(normed[i].image_url)], 1)
  IN SeenFilter(valid, [i \in 1..Len(valid) |-> Key_hard(valid[i])])

-----------------------------------------------------------------------------
(* Variant "cdn": src/unnamed/part_003 lines 254-584 *)

RETAILERS_cdn ==
  << [key |-> "zara", web |-> {"zara.com"}, cdn |-> {"static.zara.net"}],
     [key |-> "hm", web |-> {"hm.com", "www2.hm.com"}, cdn |-> {"image.hm.com", "lp2.hm.com"}],
     [key |-> "next", web |-> {"next.co.uk"}, cdn |-> {"xcdn.next.co.uk"}],
     [key |-> "asos", web |-> {"asos.com"}, cdn |-> {"images.asos-media.com"}],
     [key |-> "zalando",
      web |-> {"zalando.co.uk", "zalando.com", "zalando.de", "zalando.fr", "zalando.nl",
               "zalando.it", "zalando.es", "zalando.be"},
      cdn |-> {"img01.ztat.net", "img02.ztat.net", "img.ztat.net"}],
     [key |-> "boxlunch", web |-> {"boxlunch.com"},
      cdn |-> {"cdn.shopify.com", "images.boxlunch.com"}],
     [key |-> "pacsun", web |-> {"pacsun.com"}, cdn |-> {"images.pacsun.com"}],
     [key |-> "bucketsandspades", web |-> {"bucketsandspades.co.uk", "bucketsandspades.com"},
      cdn |-> {"cdn.shopify.com"}],
     [key |-> "pinterest", web |-> {"pinterest.com"}, cdn |-> {"i.pinimg.com"}] >>

APPAREL_TERMS_cdn ==
  {"hoodie", "sweatshirt", "jumper", "t-shirt", "tee", "joggers", "pyjamas", "pajamas",
   "kids", "boys", "girls", "set", "beanie", "cap", "hat", "jacket", "tracksuit"}

retailerForUrl_cdn(u) ==
  LET d == domainOf(u)
      I == {i \in 1..Len(RETAILERS_cdn) :
              d # "" /\ HostDomains(d) \cap (RETAILERS_cdn[i].web \cup RETAILERS_cdn[i].cdn) # {}}
  IN IF I = {} THEN "other" ELSE RETAILERS_cdn[Min(I)].key

\* k.replace("-", "")
Unhyphen(k) == IF k = "t-shirt" THEN "tshirt" ELSE k

\* looksLikeHotWheels(u, title, desc); text is the set of needles that occur
\* in the lower-cased title + " " + desc
looksLikeHotWheels(u, text) ==
  LET hasLicense ==
        \/ "hot wheels" \in text \/ "hotwheels" \in text
        \/ (Includes(u, "hot") /\ Includes(u, "wheel"))
      apparelHit == \E k \in APPAREL_TERMS_cdn : k \in text \/ Includes(u, Unhyphen(k))
  IN /\ hasLicense
     /\ \/ apparelHit
        \/ Includes(u, "product")
        \/ HasSegSlash(u, "style")
        \/ HasSegSlash(u, "prd")

\* /\.(png|jpg|jpeg|webp)(\?|$)/i.test(u) || u.includes("hmgoepprod?")
isImageUrl(u) ==
  \/ \E ext \in {".png", ".jpg", ".jpeg", ".webp"} :
        (EndsWith(u, ext) /\ u.hash = "") \/ IncludesExtQuery(u, ext)
  \/ (Len(u.path) > 0 /\ LowerTok(Last(u.path)) = "hmgoepprod" /\ u.query # <<>>)

Normed_cdn(it) ==
  [it EXCEPT !.image_url = normUrl_cdn(it.image_url),
             !.product_url = normUrl_cdn(it.product_url)]

\* const key = stripParams(img)
Key_cdn(n) == stripImageParams(n.image_url)

\* dedupe of part_003 lines 431-444
dedupe_cdn(items) ==
  LET normed == [i \in 1..Len(items) |-> Normed_cdn(items[i])]
      valid == KeepFrom(normed,
                 [i \in 1..Len(normed) |->
                    Truthy(normed[i].image_url) /\ Truthy(normed[i].product_url)], 1)
  IN SeenFilter(valid, [i \in 1..Len(valid) |-> Key_cdn(valid[i])])

-----------------------------------------------------------------------------
(* Search results the model draws from *)

pNextA  == U("www.next.co.uk", <<"style", "k7", "101">>, <<>>, "")
pNextAq == U("www.next.co.uk", <<"style", "K7", "101">>, <<"colour=red">>, "")
pNextB  == U("www.next.co.uk", <<"style", "k7", "A9">>, <<>>, "")
pNextAh == U("www.next.co.uk", <<"style", "k7", "101">>, <<>>, "reviews")
pNextList == U("www.next.co.uk", <<"search">>, <<"w=hot-wheels">>, "")
pHm     == U("www2.hm.com", <<"en_gb", "productpage.0101.html">>, <<>>, "")
pPin    == U("www.pinterest.com", <<"pin", "hot-wheels-tee">>, <<>>, "")
pPinBad == U("www.pinterest.com", <<"pin", "55">>, <<>>, "")
pOther  == U("shop.example.test", <<"hot-wheels-hoodie">>, <<>>, "")
pRef    == U("shop.example.test", <<"hot-wheels-tee">>, <<"ref=next.co.uk">>, "")
pPrev   == U("www.next.co.uk", <<"style", "old", "1">>, <<>>, "")

iA     == U("img.hotwheels.test", <<"a.jpg">>, <<>>, "")
iB     == U("img.hotwheels.test", <<"b.jpg">>, <<>>, "")
iHi    == U("img.hotwheels.test", <<"a_2160.jpg">>, <<>>, "")
iAw    == U("img.hotwheels.test", <<"a.jpg">>, <<"imwidth=750">>, "")
iAh    == U("img.hotwheels.test", <<"a.jpg">>, <<>>, "zoom")
iThumb == U("img.example.test", <<"thumb", "c.png">>, <<>>, "")
iCdn   == U("xcdn.next.co.uk", <<"hot-wheels-tee", "a.jpg">>, <<>>, "")
iAww   == U("img.hotwheels.test", <<"a.jpg">>, <<"imwidth=750", "wid=300">>, "")

\* the content of the output file before the run
PrevFile == <<Cand("next", pPrev, iA)>>

Raw(p, i) == [product_url |-> p, image_url |-> i]

\* pairs parseBingImages can return: both fields truthy
Results_img ==
  { Raw(pNextA, iA), Raw(pNextAq, iB), Raw(pNextA, iHi), Raw(pNextB, iHi),
    Raw(pHm, iThumb), Raw(pPin, iA), Raw(pPinBad, iB), Raw(pOther, iB),
    Raw(pRef, iA), Raw(pNextA, NumVal), Raw(NumVal, iA) }

\* {product_url, image_url} pairs parseBingRssItems can return: non-empty strings
iRel == Rel(<<"img", "a.jpg">>, <<>>, "")
pWiki == U("en.wikipedia.org", <<"wiki", "hot-wheels-tee">>, <<>>, "")
pHmB == U("www2.hm.com", <<"en_gb", "productpage.0202.html">>, <<>>, "")

Results_rss ==
  { Raw(pNextA, iA), Raw(pNextA, iB), Raw(pNextAq, iA), Raw(pHm, iA),
    Raw(pOther, iA), Raw(pRef, iThumb), Raw(pPin, iRel) }

\* links parseBingRssLinks can return: strings that start with "http"
Links_feed == {pNextA, pNextAq, pHm, pOther, pWiki}

\* what resolveUrlToImage does on a page: it throws, or returns ogImage (the
\* empty string stands for null: no og:image, twitter:image or image meta)
Pages_feed ==
  { [threw |-> TRUE, ogImage |-> EmptyStr], [threw |-> FALSE, ogImage |-> EmptyStr],
    [threw |-> FALSE, ogImage |-> iA], [threw |-> FALSE, ogImage |-> iB],
    [threw |-> FALSE, ogImage |-> iRel] }

\* links parseRssLinks (part_002) can return
Links_hard == {pNextA, pNextAq, pNextAh, pNextList, pHm, pPin, pOther, iRel}

\* a fetched product page: ok is res.ok, lic and app say whether the page text
\* has the licence and an apparel keyword, og is extractOgImage's result and
\* fb is extractFirstLikelyImage's
Page(ok, lic, app, og, fb) == [ok |-> ok, lic |-> lic, app |-> app, og |-> og, fb |-> fb]

Pages_hard ==
  { Page(FALSE, FALSE, FALSE, EmptyStr, EmptyStr),
    Page(TRUE, FALSE, TRUE, iA, EmptyStr),
    Page(TRUE, TRUE, FALSE, iA, EmptyStr),
    Page(TRUE, TRUE, TRUE, EmptyStr, EmptyStr),
    Page(TRUE, TRUE, TRUE, iA, EmptyStr),
    Page(TRUE, TRUE, TRUE, iAw, EmptyStr),
    Page(TRUE, TRUE, TRUE, iAh, EmptyStr),
    Page(TRUE, TRUE, TRUE, iAww, EmptyStr),
    Page(TRUE, TRUE, TRUE, EmptyStr, iCdn),
    Page(TRUE, TRUE, TRUE, iRel, iCdn) }

\* items parseRssItems (part_003) can return: a non-empty link and text, the
\* needles that occur in the lower-cased title and description
Item(link, text) == [link |-> link, text |-> text]
pCdnRel == Rel(<<"hot-wheels-tee", "a.jpg">>, <<>>, "")

Items_cdn ==
  { Item(iCdn, {}), Item(pNextA, {"hot wheels"}), Item(pNextA, {}),
    Item(pNextAh, {"hot wheels", "hoodie"}), Item(pOther, {}),
    Item(pHm, {"hotwheels", "tee"}), Item(pCdnRel, {}) }

\* a fetched page of part_003: bad is !ok || status >= 400, lic says whether
\* the page text has "hot wheels" or "hotwheels", img is og || extractFirstImage
PageCdn(bad, lic, img) == [bad |-> bad, lic |-> lic, img |-> img]

Pages_cdn ==
  { PageCdn(TRUE, FALSE, EmptyStr), PageCdn(FALSE, FALSE, iA),
    PageCdn(FALSE, TRUE, EmptyStr), PageCdn(FALSE, TRUE, iA),
    PageCdn(FALSE, TRUE, iAw), PageCdn(FALSE, TRUE, iAh) }

\* anchors of the H&M result page with an image: href has "/productpage."
Anchors_hm == {Raw(pHm, iA), Raw(pHm, iAw), Raw(pHmB, iA), Raw(pHmB, iRel)}

\* anchors of the Next result page with an image: href has "next.co.uk"
Anchors_next == {Raw(pNextA, iA), Raw(pNextA, iAw), Raw(pNextList, iB), Raw(pRef, iA)}

Variants == {"img", "imgo", "rss", "feeda", "feedo", "hard", "cdn", "pw", "pw2"}

\* MAX_ITEMS, scaled to the model's list lengths (source: 200, 800 in part_002,
\* 600 in part_003)
MAX_ITEMS == 2

-----------------------------------------------------------------------------
(* The parser of the Bing Images variants *)

\* the content of one m="..." attribute as it stands in the raw body: quote is
\* how the string delimiters of the JSON text are written, top is the kind of
\* JSON text, and the four fields are the values of the object's properties
\* (the empty string also stands for a missing property and for null)
Blob(quote, top, murl, imgurl, turl, purl) ==
  [quote |-> quote, top |-> top, murl |-> murl, imgurl |-> imgurl, turl |-> turl,
   purl |-> purl]

bBad   == Blob("&quot;", "truncated", iA, EmptyStr, EmptyStr, pNextA)
bApos  == Blob("&#39;", "object", iA, EmptyStr, EmptyStr, pNextA)
bNull  == Blob("&quot;", "null", EmptyStr, EmptyStr, EmptyStr, EmptyStr)
bNum   == Blob("&quot;", "number", EmptyStr, EmptyStr, EmptyStr, EmptyStr)
bGood1 == Blob("&quot;", "object", iA, EmptyStr, EmptyStr, pNextA)
bGood2 == Blob("&#34;", "object", EmptyStr, iB, iThumb, pHm)
bTurl  == Blob("&quot;", "object", EmptyStr, EmptyStr, iThumb, pPin)
bNoPurl == Blob("&quot;", "object", iA, EmptyStr, EmptyStr, EmptyStr)
bNumField == Blob("&#34;", "object", NumVal, iB, EmptyStr, pNextB)

Blobs == {bBad, bApos, bNull, bNum, bGood1, bGood2, bTurl, bNoPurl, bNumField}

\* htmlUnescape: &quot; and &#34; become the double quote, &#39; the apostrophe
htmlUnescape(raw) ==
  [raw EXCEPT !.quote = CASE raw.quote \in {"&quot;", "&#34;"} -> "\""
                          [] raw.quote = "&#39;" -> "'"
                          [] OTHER -> raw.quote]

\* JSON.parse throws a SyntaxError on a truncated text and on an object whose
\* strings are not in double quotes
JsonThrows(unescaped) ==
  \/ unescaped.top = "truncated"
  \/ unescaped.top = "object" /\ unescaped.quote # "\""

\* a || b
Or(a, b) == IF Truthy(a) THEN a ELSE b

RECURSIVE ParseFold(_, _)
\* the while loop of parseBingImages: threw says that a TypeError left it
ParseFold(blobs, results) ==
  IF blobs = <<>> THEN [threw |-> FALSE, results |-> results]
  ELSE LET obj == htmlUnescape(Head(blobs))
       IN IF JsonThrows(obj) THEN ParseFold(Tail(blobs), results)
          ELSE IF obj.top = "null" THEN [threw |-> TRUE, results |-> results]
          ELSE IF obj.top = "number" THEN ParseFold(Tail(blobs), results)
          ELSE LET image_url == Or(obj.murl, Or(obj.imgurl, obj.turl))
                   product_url == obj.purl
               IN IF Truthy(image_url) /\ Truthy(product_url)
                  THEN ParseFold(Tail(blobs), Append(results, Raw(product_url, image_url)))
                  ELSE ParseFold(Tail(blobs), results)

parseBingImages(html) == ParseFold(html, <<>>)

InitParse ==
  /\ variant \in {"img", "imgo"}
  /\ pc = "build"
  /\ cands = <<>>
  /\ quick = <<>>
  /\ deduped = <<>>
  /\ out = PrevFile
  /\ written = 0
  /\ exitCode = -1
  /\ body = <<>>
  /\ parsed = [threw |-> FALSE, results |-> <<>>]
  /\ reqs = <<>>
  /\ urls = <<>>
  /\ raised = "none"
  /\ pace = [last |-> "none", unpaced |-> FALSE]
  /\ failed = {}
  /\ probe = <<>>
  /\ verdict = <<>>

\* the search engine's page grows by one m="..." attribute
AddBlob ==
  /\ pc = "build" /\ Len(body) < MaxBody
  /\ \E b \in Blobs : body' = Append(body, b)
  /\ UNCHANGED <<probe, verdict, failed, pace, raised, variant, pc, cands, quick, deduped, out, written, exitCode, parsed,
                 reqs, urls>>

\* const items = parseBingImages(html)
Parse ==
  /\ pc = "build"
  /\ parsed' = parseBingImages(body)
  /\ pc' = "parsed"
  /\ UNCHANGED <<probe, verdict, failed, pace, raised, variant, cands, quick, deduped, out, written, exitCode, body, reqs, urls>>

NextParse ==
  \/ AddBlob
  \/ Parse

SpecParse == InitParse /\ [][NextParse]_vars

-----------------------------------------------------------------------------
(* The run after the searches: filter, dedupe, cap, write *)

\* the lists candidateUrls can be after the searches of the feed variants
UrlLists ==
  {<<>>} \cup {<<a>> : a \in Links_feed}
    \cup {s \in {<<a, b>> : a \in Links_feed, b \in Links_feed} : s[1] # s[2]}

Init ==
  /\ variant \in Variants
  /\ pc = "collect"
  /\ cands = <<>>
  /\ quick = <<>>
  /\ deduped = <<>>
  /\ out = PrevFile
  /\ written = 0
  /\ exitCode = -1
  /\ body = <<>>
  /\ parsed = <<>>
  /\ reqs = <<>>
  /\ urls \in (IF variant \in {"feeda", "feedo"} THEN UrlLists ELSE {<<>>})
  /\ raised = "none"
  /\ pace = [last |-> "none", unpaced |-> FALSE]
  /\ failed = {}
  /\ probe = <<>>
  /\ verdict = <<>>

\* `await fetch(...)` / `await page.goto(...)` and `await sleep(ms)`: the run
\* is one control flow, so the requests and sleeps of a run form a sequence
Request == "req"
Sleep == "sleep"

RECURSIVE Paced(_, _)
\* pace after the events, in order
Paced(p, events) ==
  IF events = <<>> THEN p
  ELSE Paced([last |-> Head(events),
              unpaced |-> p.unpaced \/ (Head(events) = Request /\ p.last = Request)],
             Tail(events))

\* every script ends with status 0 whatever main() rejected with
Rejected_exit0(cause, q, d) ==
  /\ raised' = cause
  /\ pc' = "done"
  /\ quick' = q
  /\ deduped' = d
  /\ exitCode' = 0
  /\ UNCHANGED <<probe, verdict, variant, cands, out, written, body, parsed, reqs, urls>>

\* main() rejects with `cause` and the handler of main().catch runs.
\* part_002 (415-423): try { append to the log; write "[]" } catch {}, then
\* process.exitCode = 0.  part_003 (580-584): append to the log, then
\* process.exitCode = 0; when the append throws, the promise of .catch() is
\* rejected with no handler and the process ends with status 1.  All other
\* scripts: process.exit(1).
Rejected(cause, q, d) ==
  /\ raised' = cause
  /\ pc' = "done"
  /\ quick' = q
  /\ deduped' = d
  /\ CASE variant = "hard" ->
            /\ exitCode' = 0
            /\ \/ out' = <<>> /\ written' = written + 1
               \/ UNCHANGED <<out, written>>
       [] variant = "cdn" ->
            /\ exitCode' \in {0, 1}
            /\ UNCHANGED <<out, written>>
       [] OTHER ->
            /\ exitCode' = 1
            /\ UNCHANGED <<out, written>>
  /\ UNCHANGED <<probe, verdict, variant, cands, body, parsed, reqs, urls>>

\* main().catch((e) => { ...; process.exit(1); }) after a TypeError
Fatal == Rejected("other", quick, deduped) /\ UNCHANGED <<pace, failed>>

\* fs.writeFileSync(OUT_PATH, JSON.stringify(final)) returns, and main() ends
WriteOk(q, d, final) ==
  /\ quick' = q
  /\ deduped' = d
  /\ out' = final
  /\ written' = written + 1
  /\ pc' = "done"
  /\ exitCode' = 0
  /\ UNCHANGED <<probe, verdict, raised, variant, cands, body, parsed, reqs, urls>>

\* the output file is written and the write of the log behind it throws
\* (logDebug, or safeJsonWrite(PROCESSED_JSON)); part_004 keeps no log.  The
\* handler of part_002 then writes "[]" over the output file.
WriteThenLogFails(q, d, final) ==
  /\ variant # "pw2"
  /\ raised' = "log"
  /\ pc' = "done"
  /\ quick' = q
  /\ deduped' = d
  /\ CASE variant = "hard" ->
            /\ exitCode' = 0
            /\ \/ out' = <<>> /\ written' = written + 2
               \/ out' = final /\ written' = written + 1
       [] variant = "cdn" ->
            /\ exitCode' \in {0, 1}
            /\ out' = final /\ written' = written + 1
       [] OTHER ->
            /\ exitCode' = 1
            /\ out' = final /\ written' = written + 1
  /\ UNCHANGED <<probe, verdict, variant, cands, body, parsed, reqs, urls>>

\* the write of the output file at the end of main(): fs.writeFileSync
\* returns, or throws (no such directory, no permission, disk full)
\* events are the requests and sleeps of main() before the write, nulls the
\* image URLs whose download returned null
WriteAfter(q, d, final, events, nulls) ==
  /\ pace' = Paced(pace, events)
  /\ failed' = nulls
  /\ \/ WriteOk(q, d, final)
     \/ Rejected("write", q, d)
     \/ WriteThenLogFails(q, d, final)

WriteAndExit(q, d, final) == WriteAfter(q, d, final, <<>>, failed)

\* a write of the debug log throws while main() runs (logDebug, log,
\* writeDebugFile: fs.appendFileSync and fs.writeFileSync outside try/catch)
LogFails ==
  /\ pc \in {"search", "collect"}
  /\ variant # "pw2"
  /\ Rejected("log", quick, deduped)
  /\ UNCHANGED <<pace, failed>>

Push(c) ==
  /\ cands' = Append(cands, c)
  /\ UNCHANGED <<probe, verdict, failed, pace, raised, variant, pc, quick, deduped, out, written, exitCode, body, parsed,
                 reqs, urls>>

\* normalizeRetailer throws a TypeError on a purl that is not a string
Throws_img(it) == ~IsString(it.product_url)

\* the body of the loop `for (const it of items)` of collectBingImagesForQuery:
\* what it pushes to candidates
Kept_img(it) ==
  LET retailer == normalizeRetailer_img(it.product_url)
  IN IF retailer = Null THEN <<>>
     ELSE IF retailer = "pinterest"
              /\ ~pinterestLooksRelevant_img(it.product_url, it.image_url) THEN <<>>
     ELSE <<Cand(retailer, it.product_url, it.image_url)>>

\* one pass of the loop `for (const it of items)` of collectBingImagesForQuery
Collect_img ==
  /\ variant = "img" /\ pc = "collect" /\ Len(cands) < MaxCands
  /\ \E it \in Results_img :
       IF Throws_img(it) THEN Fatal
       ELSE Kept_img(it) # <<>> /\ Push(Kept_img(it)[1])

\* main() from the quick image dedupe to the write (lines 274-291)
Finish_img ==
  /\ variant = "img" /\ pc = "collect"
  /\ LET q == QuickImageDedupe(cands)
     IN IF StyleThrows(q) THEN Fatal
        ELSE LET styleDedupe == dedupeByStyleKeepBest_img(q)
             IN WriteAndExit(q, styleDedupe, Slice(styleDedupe, MAX_ITEMS))

\* the mutated loop body: no relevance test at all, as in the RSS script
Kept_imgo_ungated(it) ==
  <<Cand(normalizeRetailer_imgo(it.product_url), it.product_url, it.image_url)>>

\* the body of the loop `for (const it of items)` of collectFromBing (part_001)
Kept_imgo(it) ==
  LET retailer == normalizeRetailer_imgo(it.product_url)
      pass == CASE retailer = "pinterest" ->
                     pinterestLooksRelevant_imgo(it.product_url, it.image_url)
                [] retailer = "other" ->
                     otherLooksRelevant(it.product_url, it.image_url)
                [] OTHER -> HasBrandPair(it.product_url, it.image_url)
  IN IF pass THEN <<Cand(retailer, it.product_url, it.image_url)>> ELSE <<>>

\* one pass of the loop `for (const it of items)` of collectFromBing (part_001)
Collect_imgo ==
  /\ variant = "imgo" /\ pc = "collect" /\ Len(cands) < MaxCands
  /\ \E it \in Results_img :
       IF Throws_img(it) THEN Fatal
       ELSE Kept_imgo(it) # <<>> /\ Push(Kept_imgo(it)[1])

\* the downloads go on behind MAX_ITEMS items
DownloadFold_all(items, nulls, final) ==
  LET kept == KeepFrom(items, [i \in 1..Len(items) |-> items[i].image_url \notin nulls], 1)
  IN final \o [i \in 1..Len(kept) |->
                 Cand(kept[i].retailer, kept[i].product_url, LocalPath(kept[i].image_url))]

RECURSIVE DownloadFold(_, _, _)
\* step 6 of main() (part_001 412-424); nulls holds the image URLs whose
\* download returns null
DownloadFold(items, nulls, final) ==
  IF items = <<>> \/ Len(final) >= MAX_ITEMS THEN final
  ELSE LET item == Head(items)
       IN IF item.image_url \in nulls
          THEN DownloadFold(Tail(items), nulls, final)
          ELSE DownloadFold(Tail(items), nulls,
                 Append(final, Cand(item.retailer, item.product_url,
                                    LocalPath(item.image_url))))

RECURSIVE DownloadEvents(_, _, _, _)
\* the requests of step 6: downloadImage fetches unless the image file is
\* already there (cached); n is final.length, and no sleep is made
DownloadEvents(items, nulls, cached, n) ==
  IF items = <<>> \/ n >= MAX_ITEMS THEN <<>>
  ELSE LET item == Head(items)
       IN IF item.image_url \in cached
          THEN DownloadEvents(Tail(items), nulls, cached, n + 1)
          ELSE <<Request>>
                 \o DownloadEvents(Tail(items), nulls, cached,
                                   IF item.image_url \in nulls THEN n ELSE n + 1)

\* main() of part_001 from step 2 to the write (lines 391-428); the fetch of
\* downloadImage can also reject, which ends the run in main().catch
Finish_imgo ==
  /\ variant = "imgo" /\ pc = "collect"
  /\ LET q == QuickImageDedupe(cands)
     IN IF StyleThrows(q) THEN Fatal
        ELSE LET d == dedupeByStyleKeepBest_imgo(q)
                 capped == applyPerRetailerCap(SortByScoreDesc(d, <<>>))
                 images == {capped[i].image_url : i \in 1..Len(capped)}
             IN \E nulls \in SUBSET images :
                  \E cached \in SUBSET (images \ nulls) :
                    LET events == DownloadEvents(capped, nulls, cached, 0)
                    IN \/ WriteAfter(q, d, DownloadFold(capped, nulls, <<>>), events,
                                     nulls)
                       \/ \E k \in 1..Len(events) :
                            /\ Rejected("other", quick, deduped)
                            /\ pace' = Paced(pace, SubSeq(events, 1, k))
                            /\ UNCHANGED failed

\* the body of the loop `for (const it of rssItems)` of main() (lines 707-731)
Kept_rss(it) ==
  LET retailer == normalizeRetailer_rss(it.product_url)
  IN IF retailer = Null THEN <<>> ELSE <<Cand(retailer, it.product_url, it.image_url)>>

\* one pass of the loop `for (const it of rssItems)`
Collect_rss ==
  /\ variant = "rss" /\ pc = "collect" /\ Len(cands) < MAX_ITEMS
  /\ \E it \in Results_rss : Kept_rss(it) # <<>> /\ Push(Kept_rss(it)[1])

\* const final = dedupe(collected).slice(0, MAX_ITEMS) and the write
Finish_rss ==
  /\ variant = "rss" /\ pc = "collect"
  /\ LET d == dedupe_rss(cands) IN WriteAndExit(<<>>, d, Slice(d, MAX_ITEMS))

\* the next of candidateUrls is resolved, and pushed when it has an image
Resolve(new, events) ==
  /\ cands' = cands \o new
  /\ urls' = Tail(urls)
  /\ pace' = Paced(pace, events)
  /\ UNCHANGED <<probe, verdict, failed, raised, variant, pc, quick, deduped, out, written, exitCode, body, parsed, reqs>>

\* the body of the loop over candidateUrls of part_003 lines 205-239
Kept_feeda(url, page) ==
  LET retailer == normalizeRetailer_feeda(url)
  IN IF retailer = Null THEN <<>>
     ELSE IF page.threw \/ ~Truthy(page.ogImage) THEN <<>>
     ELSE <<Cand(retailer, url, page.ogImage)>>

\* one pass of the loop over candidateUrls (part_003)
Collect_feeda ==
  /\ variant = "feeda" /\ pc = "collect" /\ urls # <<>> /\ Len(cands) < MAX_ITEMS
  /\ \E page \in Pages_feed :
       Resolve(Kept_feeda(Head(urls), page),
               IF normalizeRetailer_feeda(Head(urls)) = Null THEN <<>>
               ELSE <<Request, Sleep>>)

Finish_feeda ==
  /\ variant = "feeda" /\ pc = "collect"
  /\ urls = <<>> \/ Len(cands) >= MAX_ITEMS
  /\ LET d == dedupe_feeda(cands) IN WriteAndExit(<<>>, d, Slice(d, MAX_ITEMS))

\* the body of the loop over candidateUrls of part_001 lines 617-646
Kept_feedo(url, page) ==
  IF page.threw \/ ~Truthy(page.ogImage) THEN <<>>
  ELSE <<Cand(normalizeRetailer_feedo(url), url, page.ogImage)>>

\* one pass of the loop over candidateUrls (part_001)
Collect_feedo ==
  /\ variant = "feedo" /\ pc = "collect" /\ urls # <<>> /\ Len(cands) < MAX_ITEMS
  /\ \E page \in Pages_feed :
       Resolve(Kept_feedo(Head(urls), page), <<Request, Sleep>>)

Finish_feedo ==
  /\ variant = "feedo" /\ pc = "collect"
  /\ urls = <<>> \/ Len(cands) >= MAX_ITEMS
  /\ LET d == dedupe_feedo(cands) IN WriteAndExit(<<>>, d, Slice(d, MAX_ITEMS))

\* the mutated page test: the licence alone is enough
getPageImageIfRelevant_licenceOnly(page) ==
  IF ~page.ok \/ ~page.lic THEN [image |-> EmptyStr, relevant |-> FALSE]
  ELSE IF Truthy(page.og) THEN [image |-> page.og, relevant |-> TRUE]
  ELSE [image |-> page.fb, relevant |-> TRUE]

\* getPageImageIfRelevant of part_002 on a fetched page
getPageImageIfRelevant(page) ==
  IF ~page.ok \/ ~page.lic \/ ~page.app THEN [image |-> EmptyStr, relevant |-> FALSE]
  ELSE IF Truthy(page.og) THEN [image |-> page.og, relevant |-> TRUE]
  ELSE [image |-> page.fb, relevant |-> TRUE]

\* the body of the loop `for (const url of links)` of part_002 lines 373-405;
\* links holds normUrl of each link and only those that start with "http"
Kept_hard(link, page) ==
  LET url == normUrl_hard(link)
      retailer == retailerForUrl_hard(url)
      got == getPageImageIfRelevant(page)
  IN IF url.kind # "abs" \/ retailer = Null THEN <<>>
     ELSE IF ~isLikelyProductUrl(url, retailer) THEN <<>>
     ELSE IF ~got.relevant \/ ~Truthy(got.image) THEN <<>>
     ELSE <<Cand(retailer, url, got.image)>>

\* one pass of the loop `for (const url of links)`
Collect_hard ==
  /\ variant = "hard" /\ pc = "collect" /\ Len(cands) < MAX_ITEMS
  /\ \E link \in Links_hard, page \in Pages_hard :
       Kept_hard(link, page) # <<>> /\ Push(Kept_hard(link, page)[1])

\* const finalItems = dedupe(found).slice(0, MAX_ITEMS); safeJsonWrite(...)
Finish_hard ==
  /\ variant = "hard" /\ pc = "collect"
  /\ LET d == dedupe_hard(cands) IN WriteAndExit(<<>>, d, Slice(d, MAX_ITEMS))

\* the body of the loop `for (const it of items)` of part_003 lines 498-556
Kept_cdn(it, page) ==
  LET link == normUrl_cdn(it.link)
      retailer == retailerForUrl_cdn(link)
  IN IF ~Truthy(link) \/ ~looksLikeHotWheels(link, it.text) THEN <<>>
     ELSE IF isImageUrl(link) THEN <<Cand(retailer, link, link)>>
     ELSE IF page.bad \/ ~page.lic \/ ~Truthy(page.img) THEN <<>>
     ELSE <<Cand(retailer, link, page.img)>>

\* one pass of the loop `for (const it of items)`
Collect_cdn ==
  /\ variant = "cdn" /\ pc = "collect" /\ Len(cands) < MAX_ITEMS
  /\ \E it \in Items_cdn, page \in Pages_cdn :
       Kept_cdn(it, page) # <<>> /\ Push(Kept_cdn(it, page)[1])

\* the mutated end of main(): KEEP_PREVIOUS_ON_EMPTY is false
Finish_cdn_overwrite ==
  /\ variant = "cdn" /\ pc = "collect"
  /\ LET d == dedupe_cdn(cands) IN WriteAndExit(<<>>, d, Slice(d, MAX_ITEMS))

\* main() of part_003 from dedupe to the end (lines 561-577):
\* KEEP_PREVIOUS_ON_EMPTY is true
Finish_cdn ==
  /\ variant = "cdn" /\ pc = "collect"
  /\ LET d == dedupe_cdn(cands)
         finalItems == Slice(d, MAX_ITEMS)
     IN IF finalItems = <<>>
        THEN \/ /\ pc' = "done"
                /\ exitCode' = 0
                /\ quick' = <<>>
                /\ deduped' = d
                /\ UNCHANGED <<probe, verdict, failed, pace, raised, variant, cands, out, written, body, parsed,
                               reqs, urls>>
             \/ (Rejected("log", <<>>, d) /\ UNCHANGED <<pace, failed>>)
        ELSE WriteAndExit(<<>>, d, finalItems)

\* the anchors of one site are de-duplicated by href (seen), and the H&M page
\* is collected before the Next page
PushAnchor(a, r) ==
  /\ \A j \in 1..Len(cands) :
        ~(cands[j].retailer = r /\ cands[j].product_url = a.product_url)
  /\ r = "hm" => \A j \in 1..Len(cands) : cands[j].retailer = "hm"
  /\ Push(Cand(r, a.product_url, a.image_url))

\* results.push(...items) of collectHM and collectNext, one item at a time
Collect_pw ==
  /\ variant = "pw" /\ pc = "collect" /\ Len(cands) < MaxCands
  /\ \/ \E a \in Anchors_hm : PushAnchor(a, "hm")
     \/ \E a \in Anchors_next : PushAnchor(a, "next")

\* const final = dedupe(results) and the write (lines 514-515)
Finish_pw ==
  /\ variant = "pw" /\ pc = "collect"
  /\ LET d == dedupe_pw(cands) IN WriteAndExit(<<>>, d, d)

\* results.push(...items) of collectFromHM and collectFromNext (part_004)
Collect_pw2 ==
  /\ variant = "pw2" /\ pc = "collect" /\ Len(cands) < MaxCands
  /\ \/ \E a \in Anchors_hm : PushAnchor(a, "hm")
     \/ \E a \in Anchors_next : PushAnchor(a, "next")

\* dedupe(results).map(x => ({...x, image_url: normalizeImage(x.image_url)}))
Finish_pw2 ==
  /\ variant = "pw2" /\ pc = "collect"
  /\ LET d == dedupe_pw2(cands)
     IN WriteAndExit(<<>>, d,
          [i \in 1..Len(d) |-> [d[i] EXCEPT !.image_url = normalizeImage(d[i].image_url)]])

Next ==
  \/ Collect_img
  \/ Finish_img
  \/ Collect_imgo
  \/ Finish_imgo
  \/ Collect_rss
  \/ Finish_rss
  \/ Collect_feeda
  \/ Finish_feeda
  \/ Collect_feedo
  \/ Finish_feedo
  \/ Collect_hard
  \/ Finish_hard
  \/ Collect_cdn
  \/ Finish_cdn
  \/ Collect_pw
  \/ Finish_pw
  \/ Collect_pw2
  \/ Finish_pw2
  \/ LogFails

Spec == Init /\ [][Next]_vars

-----------------------------------------------------------------------------
(* The whole run: search requests, then the steps above *)

\* what a search request can come to: the fetch rejects (network error,
\* timeout), or a response arrives with a status outside or inside 200-299
Outcomes == {"error", "non2xx", "ok"}

Req(outcome, got) == [outcome |-> outcome, got |-> got]

RECURSIVE Flatten(_)
Flatten(ss) == IF ss = <<>> THEN <<>> ELSE Head(ss) \o Flatten(Tail(ss))

\* bodies of a Bing Images response
Bodies_img == {<<>>, <<bGood1>>, <<bGood2, bGood1>>, <<bNull>>, <<bBad, bTurl>>}

\* items of a Bing RSS response with link and image
Bodies_rss == {<<>>, <<Raw(pNextA, iA)>>, <<Raw(pOther, iA), Raw(pHm, iB)>>}

\* links of a Bing RSS response
Bodies_links == {<<>>, <<pNextA>>, <<pWiki, pOther>>}

\* links of a Bing RSS response of part_002, each with the page it leads to
Hit(link, page) == [link |-> link, page |-> page]

Bodies_hard ==
  { <<>>, <<Hit(pNextA, Page(TRUE, TRUE, TRUE, iA, EmptyStr))>>,
    <<Hit(pNextList, Page(TRUE, TRUE, TRUE, iA, EmptyStr)),
      Hit(pHm, Page(TRUE, TRUE, TRUE, iAw, EmptyStr))>>,
    <<Hit(pNextAh, Page(FALSE, FALSE, FALSE, EmptyStr, EmptyStr))>> }

\* items of a Bing RSS response of part_003, each with the page it leads to
HitCdn(it, page) == [it |-> it, page |-> page]

Bodies_cdn ==
  { <<>>, <<HitCdn(Item(iCdn, {}), PageCdn(TRUE, FALSE, EmptyStr))>>,
    <<HitCdn(Item(pNextA, {"hot wheels"}), PageCdn(FALSE, TRUE, iA)),
      HitCdn(Item(pOther, {}), PageCdn(FALSE, TRUE, iAh))>>,
    <<HitCdn(Item(pHm, {"hotwheels", "tee"}), PageCdn(TRUE, FALSE, EmptyStr))>> }

\* anchors with an image the result page of a site shows
Bodies_hm == {<<>>, <<Raw(pHm, iA)>>, <<Raw(pHm, iAw), Raw(pHmB, iRel)>>}
Bodies_next == {<<>>, <<Raw(pNextA, iA)>>, <<Raw(pNextList, iB), Raw(pNextA, iAw)>>}

\* longest series of search requests of a run
MaxRequests == 3

InitRun ==
  /\ variant \in Variants
  /\ pc = "search"
  /\ cands = <<>>
  /\ quick = <<>>
  /\ deduped = <<>>
  /\ out = PrevFile
  /\ written = 0
  /\ exitCode = -1
  /\ body = <<>>
  /\ parsed = <<>>
  /\ reqs = <<>>
  /\ urls = <<>>
  /\ raised = "none"
  /\ pace = [last |-> "none", unpaced |-> FALSE]
  /\ failed = {}
  /\ probe = <<>>
  /\ verdict = <<>>

\* the request is over and the run goes on with the candidates it gained
Gain(outcome, new, events) ==
  /\ cands' = cands \o new
  /\ reqs' = Append(reqs, Req(outcome, Len(new)))
  /\ pace' = Paced(pace, events)
  /\ UNCHANGED <<probe, verdict, failed, raised, variant, pc, quick, deduped, out, written, exitCode, body, parsed, urls>>

\* the request is over and the run goes on with the links it gained
GainUrls(outcome, links) ==
  /\ urls' = urls \o links
  /\ reqs' = Append(reqs, Req(outcome, Len(links)))
  /\ pace' = Paced(pace, <<Request>>)
  /\ UNCHANGED <<probe, verdict, failed, raised, variant, pc, cands, quick, deduped, out, written, exitCode, body, parsed>>

\* an exception of the request reaches main().catch: process.exit(1)
FatalReq(outcome) ==
  /\ pc' = "done"
  /\ exitCode' = 1
  /\ raised' = "other"
  /\ reqs' = Append(reqs, Req(outcome, 0))
  /\ pace' = Paced(pace, <<Request>>)
  /\ UNCHANGED <<probe, verdict, failed, variant, cands, quick, deduped, out, written, body, parsed, urls>>

\* one page of collectBingImagesForQuery (lines 195-227): fetchText has no
\* try/catch and the status is only logged
Search_img ==
  /\ variant = "img" /\ pc = "search" /\ Len(reqs) < MaxRequests
  /\ \E outcome \in Outcomes, html \in Bodies_img :
       LET items == parseBingImages(html)
       IN IF outcome = "error" THEN FatalReq(outcome)
          ELSE IF items.threw
                  \/ \E i \in 1..Len(items.results) : Throws_img(items.results[i])
          THEN FatalReq(outcome)
          ELSE Gain(outcome,
                 Flatten([i \in 1..Len(items.results) |-> Kept_img(items.results[i])]),
                 IF Len(items.results) = 0 THEN <<Request>> ELSE <<Request, Sleep>>)

\* one page of collectFromBing (part_001 lines 269-299)
Search_imgo ==
  /\ variant = "imgo" /\ pc = "search" /\ Len(reqs) < MaxRequests
  /\ \E outcome \in Outcomes, html \in Bodies_img :
       LET items == parseBingImages(html)
       IN IF outcome = "error" THEN FatalReq(outcome)
          ELSE IF items.threw
                  \/ \E i \in 1..Len(items.results) : Throws_img(items.results[i])
          THEN FatalReq(outcome)
          ELSE Gain(outcome,
                 Flatten([i \in 1..Len(items.results) |-> Kept_imgo(items.results[i])]),
                 IF Len(items.results) = 0 THEN <<Request>> ELSE <<Request, Sleep>>)

\* one source of main() (lines 697-736): collectFromBingRss in try/catch, the
\* status only logged, the loop left once collected has MAX_ITEMS items
Search_rss ==
  /\ variant = "rss" /\ pc = "search" /\ Len(reqs) < MaxRequests
  /\ Len(cands) < MAX_ITEMS
  /\ \E outcome \in Outcomes, rssItems \in Bodies_rss :
       LET kept == Slice(Flatten([i \in 1..Len(rssItems) |-> Kept_rss(rssItems[i])]),
                         MAX_ITEMS - Len(cands))
       IN IF outcome = "error" THEN Gain(outcome, <<>>, <<Request>>)
          ELSE Gain(outcome, kept,
                    IF Len(cands) + Len(kept) >= MAX_ITEMS THEN <<Request>>
                    ELSE <<Request, Sleep>>)

\* one source of step 1 of main() (part_003 lines 190-198)
Search_feeda ==
  /\ variant = "feeda" /\ pc = "search" /\ Len(reqs) < MaxRequests
  /\ \E outcome \in Outcomes, links \in Bodies_links :
       IF outcome = "error" THEN GainUrls(outcome, <<>>) ELSE GainUrls(outcome, links)

\* one source of step 1 of main() (part_001 lines 603-611)
Search_feedo ==
  /\ variant = "feedo" /\ pc = "search" /\ Len(reqs) < MaxRequests
  /\ \E outcome \in Outcomes, links \in Bodies_links :
       IF outcome = "error" THEN GainUrls(outcome, <<>>) ELSE GainUrls(outcome, links)

RECURSIVE LinkEvents_hard(_, _)
\* the loop `for (const url of links)` (part_002 373-405) with room for `room`
\* more items: getPageImageIfRelevant fetches the page of every link that is
\* a likely product URL of a retailer, and the sleep follows only a kept item
LinkEvents_hard(hits, room) ==
  IF hits = <<>> \/ room <= 0 THEN <<>>
  ELSE LET url == normUrl_hard(Head(hits).link)
           retailer == retailerForUrl_hard(url)
       IN IF url.kind # "abs" \/ retailer = Null
          THEN LinkEvents_hard(Tail(hits), room)
          ELSE IF ~isLikelyProductUrl(url, retailer)
          THEN LinkEvents_hard(Tail(hits), room)
          ELSE IF Kept_hard(Head(hits).link, Head(hits).page) = <<>>
          THEN <<Request>> \o LinkEvents_hard(Tail(hits), room)
          ELSE <<Request, Sleep>> \o LinkEvents_hard(Tail(hits), room - 1)

\* one query of main() (part_002 lines 351-406), with one RSS page: bingRssSearch
\* returns [] unless the response is ok
Search_hard ==
  /\ variant = "hard" /\ pc = "search" /\ Len(reqs) < MaxRequests
  /\ Len(cands) < MAX_ITEMS
  /\ \E outcome \in Outcomes, hits \in Bodies_hard :
       IF outcome # "ok" THEN Gain(outcome, <<>>, <<Request, Sleep>>)
       ELSE Gain(outcome,
              Slice(Flatten([i \in 1..Len(hits) |-> Kept_hard(hits[i].link, hits[i].page)]),
                    MAX_ITEMS - Len(cands)),
              <<Request, Sleep>> \o LinkEvents_hard(hits, MAX_ITEMS - Len(cands)))

RECURSIVE ItemEvents_cdn(_, _)
\* the loop `for (const it of items)` (part_003 498-556) with room for `room`
\* more items: a direct image link is kept with no request; the page of any
\* other relevant link is fetched, and the sleep follows only a kept item
ItemEvents_cdn(hits, room) ==
  IF hits = <<>> \/ room <= 0 THEN <<>>
  ELSE LET link == normUrl_cdn(Head(hits).it.link)
       IN IF ~Truthy(link) \/ ~looksLikeHotWheels(link, Head(hits).it.text)
          THEN ItemEvents_cdn(Tail(hits), room)
          ELSE IF isImageUrl(link)
          THEN ItemEvents_cdn(Tail(hits), room - 1)
          ELSE IF Kept_cdn(Head(hits).it, Head(hits).page) = <<>>
          THEN <<Request>> \o ItemEvents_cdn(Tail(hits), room)
          ELSE <<Request, Sleep>> \o ItemEvents_cdn(Tail(hits), room - 1)

\* one query of main() (part_003 lines 481-557), with one RSS page: bingRss
\* returns [] unless the response is ok
Search_cdn ==
  /\ variant = "cdn" /\ pc = "search" /\ Len(reqs) < MaxRequests
  /\ Len(cands) < MAX_ITEMS
  /\ \E outcome \in Outcomes, hits \in Bodies_cdn :
       IF outcome # "ok" THEN Gain(outcome, <<>>, <<Request, Sleep>>)
       ELSE Gain(outcome,
              Slice(Flatten([i \in 1..Len(hits) |-> Kept_cdn(hits[i].it, hits[i].page)]),
                    MAX_ITEMS - Len(cands)),
              <<Request, Sleep>> \o ItemEvents_cdn(hits, MAX_ITEMS - Len(cands)))

\* the site the next page.goto of the Playwright variants opens
SiteOf(n) == IF n = 0 THEN "hm" ELSE "next"

Sites == {"hm", "next"}

\* the anchors of the page, as items of the site's retailer
Anchors(site, anchors) ==
  [i \in 1..Len(anchors) |-> Cand(site, anchors[i].product_url, anchors[i].image_url)]

\* collectHM, then collectNext, each in try/catch (lines 497-509); page.goto
\* resolves whatever the status of the response.  The catch block awaits
\* dumpDebug (328-333) outside any try: when page.screenshot, page.content or
\* the write of the capture throws, main() rejects from inside the handler
Search_pw ==
  /\ variant = "pw" /\ pc = "search" /\ Len(reqs) < Cardinality(Sites)
  /\ \E outcome \in Outcomes :
       \E anchors \in (IF Len(reqs) = 0 THEN Bodies_hm ELSE Bodies_next) :
          IF outcome = "error"
          THEN \/ Gain(outcome, <<>>, <<Request>>)
               \/ FatalReq(outcome)
          ELSE Gain(outcome, Anchors(SiteOf(Len(reqs)), anchors), <<Request, Sleep>>)

\* collectFromHM, then collectFromNext, each in try/catch (part_004)
Search_pw2 ==
  /\ variant = "pw2" /\ pc = "search" /\ Len(reqs) < Cardinality(Sites)
  /\ \E outcome \in Outcomes :
       \E anchors \in (IF Len(reqs) = 0 THEN Bodies_hm ELSE Bodies_next) :
          IF outcome = "error" THEN Gain(outcome, <<>>, <<Request>>)
          ELSE Gain(outcome, Anchors(SiteOf(Len(reqs)), anchors), <<Request, Sleep>>)

\* Array.from(new Set(candidateUrls))
Unique(s) == SeenFilter(s, s)

\* the loop over the queries ends: all are made, or the variant's limit on
\* the candidates is reached; the feed variants then make candidateUrls a
\* set, and part_003 drops the blocked URLs
EndSearch ==
  /\ pc = "search"
  /\ \/ Len(reqs) = MaxRequests
     \/ variant \in {"rss", "hard", "cdn"} /\ Len(cands) >= MAX_ITEMS
     \/ variant \in {"pw", "pw2"} /\ Len(reqs) = Cardinality(Sites)
  /\ pc' = "collect"
  /\ urls' = IF variant = "feeda" THEN SelectSeq(Unique(urls), LAMBDA u : ~isBlockedUrl(u))
             ELSE Unique(urls)
  /\ UNCHANGED <<probe, verdict, failed, pace, raised, variant, cands, quick, deduped, out, written, exitCode, body, parsed, reqs>>

NextRun ==
  \/ Search_img
  \/ Search_imgo
  \/ Search_rss
  \/ Search_feeda
  \/ Search_feedo
  \/ Search_hard
  \/ Search_cdn
  \/ Search_pw
  \/ Search_pw2
  \/ EndSearch
  \/ Collect_feeda
  \/ Collect_feedo
  \/ Finish_img
  \/ Finish_imgo
  \/ Finish_rss
  \/ Finish_feeda
  \/ Finish_feedo
  \/ Finish_hard
  \/ Finish_cdn
  \/ Finish_pw
  \/ Finish_pw2
  \/ LogFails

SpecRun == InitRun /\ [][NextRun]_vars

-----------------------------------------------------------------------------
(* Properties of the run: output items and deduplication *)

\* the run ended after writing the output file
Written == pc = "done" /\ written = 1

StyleVariants == {"img", "imgo"}

OtherVariants == {"imgo", "feedo", "cdn"}

StyleKeyOf(v, it) ==
  IF v = "img" THEN styleKey_img(it.retailer, it.product_url)
  ELSE styleKey_imgo(it.retailer, it.product_url)

ScoreOf(v, it) ==
  IF v = "img" THEN imageScore_img(it.image_url) ELSE imageScore_imgo(it.image_url)

\* the two phases of the Bing Images variants
TwoPhase(v, items) ==
  IF v = "img" THEN dedupeByStyleKeepBest_img(QuickImageDedupe(items))
  ELSE dedupeByStyleKeepBest_imgo(QuickImageDedupe(items))

\* the deduplication of each variant
Dedup(v, items) ==
  CASE v \in StyleVariants -> TwoPhase(v, items)
    [] v = "rss" -> dedupe_rss(items)
    [] v = "feeda" -> dedupe_feeda(items)
    [] v = "feedo" -> dedupe_feedo(items)
    [] v = "hard" -> dedupe_hard(items)
    [] v = "cdn" -> dedupe_cdn(items)
    [] v = "pw" -> dedupe_pw(items)
    [] v = "pw2" -> dedupe_pw2(items)

\* the keys of the retailer table each variant is configured with
RetailerKeys(v) ==
  CASE v = "img" -> Keys(RETAILERS_img)
    [] v = "imgo" -> Keys(RETAILERS_imgo)
    [] v \in {"rss", "feeda"} -> Keys(ALLOWED_RETAILER_MATCH)
    [] v = "feedo" -> Keys(FEEDO_RULES)
    [] v = "hard" -> Keys(RETAILERS_hard)
    [] v = "cdn" -> Keys(RETAILERS_cdn)
    [] v \in {"pw", "pw2"} -> {"hm", "next"}

NonEmptyString(u) == IsString(u) /\ Truthy(u)

FieldsNonEmpty(it) ==
  /\ it.retailer \notin {"", Null}
  /\ NonEmptyString(it.product_url)
  /\ NonEmptyString(it.image_url)

Perms(n) == {f \in [1..n -> 1..n] : \A i, j \in 1..n : f[i] = f[j] => i = j}

Permute(items, f) == [i \in 1..Len(items) |-> items[f[i]]]

\* C1 as stated: every item written has a retailer that is a key of the
\* variant's retailer table, and three non-empty string fields.
C1_RetailerIsTableKey ==
  Written =>
    \A i \in 1..Len(out) :
       out[i].retailer \in RetailerKeys(variant) /\ FieldsNonEmpty(out[i])

\* C1 (amended): every item written has a retailer that is a key of the
\* variant's retailer table or, in the variants with the fallback bucket
\* (both scripts of part_001 and the CDN-first script of part_003), the
\* literal "other"; its three fields are non-empty strings.
C1_RetailerIsTableKeyOrOther ==
  Written =>
    \A i \in 1..Len(out) :
       /\ out[i].retailer \in
            RetailerKeys(variant)
              \cup (IF variant \in OtherVariants THEN {"other"} ELSE {})
       /\ FieldsNonEmpty(out[i])

C1_Witness ==
  /\ Written /\ variant = "imgo"
  /\ \E i \in 1..Len(out) : out[i].retailer = "other"
  /\ \E i \in 1..Len(out) : out[i].retailer \in Keys(RETAILERS_imgo)

\* C2: in the Bing Images variants no two items of the style-deduped list,
\* and so no two items of the final output, have the same StyleKey.
C2_StyleKeysDiffer ==
  (Written /\ variant \in StyleVariants) =>
    /\ \A i, j \in 1..Len(out) :
          i # j => StyleKeyOf(variant, out[i]) # StyleKeyOf(variant, out[j])
    /\ \A i, j \in 1..Len(deduped) :
          i # j => StyleKeyOf(variant, deduped[i]) # StyleKeyOf(variant, deduped[j])

C2_Witness ==
  /\ Written /\ variant \in StyleVariants
  /\ Len(out) = 2
  /\ \E i, j \in 1..Len(quick) :
        /\ i < j
        /\ StyleKeyOf(variant, quick[i]) = StyleKeyOf(variant, quick[j])
        /\ ScoreOf(variant, quick[i]) < ScoreOf(variant, quick[j])

\* C3 as stated: the item kept for a StyleKey has the maximum imageScore of
\* all candidates of that StyleKey.
C3_KeptIsBestOfAll ==
  (Written /\ variant \in StyleVariants) =>
    \A i \in 1..Len(deduped), j \in 1..Len(cands) :
       StyleKeyOf(variant, cands[j]) = StyleKeyOf(variant, deduped[i])
         => ScoreOf(variant, cands[j]) <= ScoreOf(variant, deduped[i])

\* C3 (amended): the item kept for a StyleKey has the maximum imageScore of
\* the candidates of that StyleKey that survive the quick image dedupe.
C3_KeptIsBestOfSurvivors ==
  (Written /\ variant \in StyleVariants) =>
    \A i \in 1..Len(deduped), j \in 1..Len(quick) :
       StyleKeyOf(variant, quick[j]) = StyleKeyOf(variant, deduped[i])
         => ScoreOf(variant, quick[j]) <= ScoreOf(variant, deduped[i])

C3_Witness ==
  /\ Written /\ variant \in StyleVariants
  /\ \E i, j \in 1..Len(quick) :
        /\ i < j
        /\ StyleKeyOf(variant, quick[i]) = StyleKeyOf(variant, quick[j])
        /\ ScoreOf(variant, quick[i]) > ScoreOf(variant, quick[j])
  /\ Len(quick) < Len(cands)

\* the positions of the list whose item has the StyleKey of it and the
\* highest score of that StyleKey
BestOfKey(v, items, it) ==
  {k \in 1..Len(items) :
     /\ StyleKeyOf(v, items[k]) = StyleKeyOf(v, it)
     /\ \A m \in 1..Len(items) :
           StyleKeyOf(v, items[m]) = StyleKeyOf(v, it)
             => ScoreOf(v, items[m]) <= ScoreOf(v, items[k])}

\* C4: the item dedupeByStyleKeepBest keeps for a StyleKey is the first item
\* of its input that has the highest score of that StyleKey: a later item of
\* the same score does not replace it.
C4_TieKeepsFirst ==
  (Written /\ variant \in StyleVariants) =>
    \A i \in 1..Len(deduped) :
       deduped[i] = quick[Min(BestOfKey(variant, quick, deduped[i]))]

C4_Witness ==
  /\ Written /\ variant \in StyleVariants
  /\ \E i \in 1..Len(deduped) : Cardinality(BestOfKey(variant, quick, deduped[i])) = 2

\* C5: the deduplication of every variant, applied to its own output, returns
\* the same set of items.
C5_Idempotent ==
  (pc = "done" /\ exitCode = 0) =>
    SeqToSet(Dedup(variant, deduped)) = SeqToSet(deduped)

C5_Witness ==
  /\ pc = "done" /\ exitCode = 0 /\ variant = "hard"
  /\ Len(cands) = 2 /\ Len(deduped) = 1
  /\ cands[1].image_url # cands[2].image_url

\* C6 as stated: the two-phase deduplication of any permutation of the
\* candidates gives the same set of items.
C6_OrderIndependent ==
  (Written /\ variant \in StyleVariants) =>
    \A f \in Perms(Len(cands)) :
       SeqToSet(TwoPhase(variant, Permute(cands, f))) = SeqToSet(deduped)

\* no two candidates have the same image URL, and no two candidates of one
\* StyleKey have the same score
NoSharedImageNoTie(v, items) ==
  \A i, j \in 1..Len(items) :
     i # j =>
       /\ items[i].image_url # items[j].image_url
       /\ StyleKeyOf(v, items[i]) = StyleKeyOf(v, items[j])
            => ScoreOf(v, items[i]) # ScoreOf(v, items[j])

\* C6 (amended): when no two candidates share an image URL and no two
\* candidates of one StyleKey have the same imageScore, the two-phase
\* deduplication of any permutation of the candidates gives the same set of
\* items.
C6_OrderIndependentWithoutTies ==
  (Written /\ variant \in StyleVariants /\ NoSharedImageNoTie(variant, cands)) =>
    \A f \in Perms(Len(cands)) :
       SeqToSet(TwoPhase(variant, Permute(cands, f))) = SeqToSet(deduped)

C6_Witness ==
  /\ Written /\ variant \in StyleVariants
  /\ NoSharedImageNoTie(variant, cands)
  /\ Len(cands) = 3 /\ Len(deduped) = 2

-----------------------------------------------------------------------------
(* Properties of the parser *)

\* JSON.parse rejects the blob
Unparsable(b) == JsonThrows(htmlUnescape(b))

\* the blob is an object with an image URL in murl, imgurl or turl and a purl
HasImageAndPurl(b) ==
  /\ ~Unparsable(b) /\ b.top = "object"
  /\ Truthy(b.murl) \/ Truthy(b.imgurl) \/ Truthy(b.turl)
  /\ Truthy(b.purl)

\* the pair of such a blob
PairOf(b) == Raw(b.purl, Or(b.murl, Or(b.imgurl, b.turl)))

\* one pair for every blob with an image URL and a purl, in document order
ExpectedPairs(blobs) ==
  LET good == SelectSeq(blobs, HasImageAndPurl)
  IN [i \in 1..Len(good) |-> PairOf(good[i])]

\* C7: parseBingImages throws no exception, whatever the raw body.
C7_ParserNeverRaises == pc = "parsed" => ~parsed.threw

\* C8: when the body has a blob that JSON.parse rejects, parseBingImages
\* returns, in document order, one pair for every other blob that has an
\* image URL field and a purl field.
C8_SkipsOnlyUnparsable ==
  (pc = "parsed" /\ \E i \in 1..Len(body) : Unparsable(body[i])) =>
    ~parsed.threw /\ parsed.results = ExpectedPairs(body)

-----------------------------------------------------------------------------
(* Properties of the search requests *)

\* C9: a network error on a search request never aborts the run, and the
\* request contributes no candidate.
C9_NetworkErrorNeverAborts ==
  \A i \in 1..Len(reqs) :
     reqs[i].outcome = "error" => reqs[i].got = 0 /\ exitCode # 1

\* C10: a search response with a non-2xx status yields no candidate.
C10_Non2xxYieldsNothing ==
  \A i \in 1..Len(reqs) : reqs[i].outcome = "non2xx" => reqs[i].got = 0

-----------------------------------------------------------------------------
(* Properties of the exit status *)

\* the scripts whose main().catch sets process.exitCode = 0
FailSoft == {"hard", "cdn"}

\* the run is over and the write of the output file threw
WriteFailed == pc = "done" /\ raised = "write"

\* C11, as stated: in every variant a run whose write of the output file
\* failed ends with a failure exit status, never with status 0
C11_WriteFailureFailsRun ==
  WriteFailed => exitCode # 0

\* C11, amended: in every variant other than the two fail-soft ones a run
\* whose write of the output file failed ends with a failure exit status
C11_WriteFailureFailsRunUnlessFailSoft ==
  (WriteFailed /\ variant \notin FailSoft) => exitCode = 1

\* a Bing RSS run with candidates whose write failed: status 1, no output
C11_Witness ==
  /\ WriteFailed
  /\ variant = "rss"
  /\ cands # <<>>
  /\ exitCode = 1
  /\ written = 0

\* C12: in the two fail-soft scripts every run ends with status 0, a run that
\* found nothing and a run whose main() rejected alike
C12_FailSoftExitsZero ==
  (pc = "done" /\ variant \in FailSoft) => exitCode = 0

-----------------------------------------------------------------------------
(* Properties of the pacing of the requests *)

\* C13: the requests of a run are issued one at a time and a sleep elapses
\* between any two consecutive requests, on every path of the run
C13_DelayBetweenRequests ==
  ~pace.unpaced

-----------------------------------------------------------------------------
(* Properties of the size and order of the output *)

\* the run is over and it wrote the output file
OutputWritten == pc = "done" /\ written > 0

\* the scripts that define MAX_ITEMS: all but the two Playwright scripts
CappedVariants == Variants \ {"pw", "pw2"}

\* C14, as stated: in every variant the output file holds at most MAX_ITEMS
\* items
C14_AtMostMaxItems ==
  OutputWritten => Len(out) <= MAX_ITEMS

\* C14, amended: in every variant that defines MAX_ITEMS the output file
\* holds at most MAX_ITEMS items
C14_AtMostMaxItemsWhereConfigured ==
  (OutputWritten /\ variant \in CappedVariants) => Len(out) <= MAX_ITEMS

\* a Bing Images run whose dedupe left more than MAX_ITEMS items
C14_Witness ==
  /\ OutputWritten
  /\ variant = "img"
  /\ Len(deduped) > MAX_ITEMS
  /\ Len(out) = MAX_ITEMS

\* part_001: the deduplicated list after the sort and the per-retailer cap
CappedOf(d) == applyPerRetailerCap(SortByScoreDesc(d, <<>>))

\* part_001: the items of the capped list whose download gave a local path
PassedOf(d, nulls) ==
  LET capped == CappedOf(d)
  IN KeepFrom(capped, [i \in 1..Len(capped) |-> capped[i].image_url \notin nulls], 1)

\* the run wrote its final list and dedupe had left more than MAX_ITEMS items
Overfull ==
  /\ OutputWritten
  /\ variant \in CappedVariants
  /\ Len(deduped) > MAX_ITEMS

\* C15, as stated: when dedupe leaves more than MAX_ITEMS items, the output
\* holds exactly MAX_ITEMS items, also with the per-retailer cap of part_001
C15_ExactlyMaxItems ==
  Overfull => Len(out) = MAX_ITEMS

\* C15, amended: when dedupe leaves more than MAX_ITEMS items, the output
\* holds exactly MAX_ITEMS items where the list is cut with slice; in part_001
\* it holds MAX_ITEMS items when at least MAX_ITEMS items pass the
\* per-retailer cap and the download, and all that pass otherwise
C15_ExactlyMaxItemsOfThosePassing ==
  Overfull =>
    IF variant = "imgo"
    THEN LET n == Len(PassedOf(deduped, failed))
         IN Len(out) = (IF n >= MAX_ITEMS THEN MAX_ITEMS ELSE n)
    ELSE Len(out) = MAX_ITEMS

\* a run of part_001 with more than MAX_ITEMS deduplicated items, of which
\* one is not downloaded and MAX_ITEMS are written
C15_Witness ==
  /\ Overfull
  /\ variant = "imgo"
  /\ failed # {}
  /\ Len(PassedOf(deduped, failed)) >= MAX_ITEMS
  /\ Len(out) = MAX_ITEMS

\* part_001: the deduplicated candidate an output item was made of; dedupe
\* leaves one candidate per retailer and product URL
SourceOf(o) ==
  CHOOSE i \in 1..Len(deduped) :
    deduped[i].retailer = o.retailer /\ deduped[i].product_url = o.product_url

\* part_001: imageScore of the source image URL of the i-th output item
SourceScore(i) == imageScore_imgo(deduped[SourceOf(out[i])].image_url)

\* part_001: the candidates that passed the cap and the download and are not
\* in the output
LeftOut ==
  LET passed == PassedOf(deduped, failed)
  IN {j \in 1..Len(passed) :
        \A i \in 1..Len(out) :
          ~(out[i].retailer = passed[j].retailer
            /\ out[i].product_url = passed[j].product_url)}

\* C16: in part_001 the output is in non-increasing order of the imageScore
\* of the source image URLs, and no candidate that passed the per-retailer
\* cap and the download and was cut off by MAX_ITEMS has a higher imageScore
\* than a written item
C16_OutputPrefersHighestScore ==
  (OutputWritten /\ variant = "imgo") =>
    LET passed == PassedOf(deduped, failed)
    IN /\ \A i \in 1..Len(out) :
            \E k \in 1..Len(deduped) :
              deduped[k].retailer = out[i].retailer
              /\ deduped[k].product_url = out[i].product_url
       /\ \A i \in 1..Len(out), j \in 1..Len(out) :
            i < j => SourceScore(i) >= SourceScore(j)
       /\ \A j \in LeftOut, i \in 1..Len(out) :
            imageScore_imgo(passed[j].image_url) <= SourceScore(i)

\* a run of part_001 whose best candidate was not the first of the
\* deduplicated list, with a downloaded candidate cut off by MAX_ITEMS
C16_Witness ==
  /\ OutputWritten
  /\ variant = "imgo"
  /\ Len(out) = MAX_ITEMS
  /\ LeftOut # {}
  /\ SourceScore(1) > SourceScore(Len(out))
  /\ SourceOf(out[1]) > 1

-----------------------------------------------------------------------------
(* The classifier on its own: a pair of product URLs is handed to the        *)
(* variant's classifier, one call per URL                                    *)

pHmRef     == U("www2.hm.com", <<"en_gb", "productpage.0101.html">>, <<"ref=next.co.uk">>, "")
pZaraRef   == U("www.zara.com", <<"hot-wheels-tee">>, <<"ref=next.co.uk">>, "")
pNextRefHm == U("www.next.co.uk", <<"style", "k7", "101">>, <<"ref=hm.com">>, "")

ProbeUrls == {pNextA, pNextRefHm, pHm, pHmRef, pZaraRef, pPin, pOther, pRef}

\* the scripts that classify a product URL by a retailer table; the two
\* Playwright scripts take the retailer from the site they opened
Classifiers == Variants \ {"pw", "pw2"}

\* the scripts whose classifier is normalizeRetailer
Normalizers == {"img", "imgo", "rss", "feeda", "feedo"}

\* the variant's classifier applied to one URL
RetailerOf(v, u) ==
  CASE v = "img" -> normalizeRetailer_img(u)
    [] v = "imgo" -> normalizeRetailer_imgo(u)
    [] v = "rss" -> normalizeRetailer_rss(u)
    [] v = "feeda" -> normalizeRetailer_feeda(u)
    [] v = "feedo" -> normalizeRetailer_feedo(u)
    [] v = "hard" -> retailerForUrl_hard(u)
    [] v = "cdn" -> retailerForUrl_cdn(u)

InitClassify ==
  /\ variant \in Classifiers
  /\ pc = "classify"
  /\ probe \in {<<a, b>> : a \in ProbeUrls, b \in ProbeUrls}
  /\ verdict = <<>>
  /\ cands = <<>>
  /\ quick = <<>>
  /\ deduped = <<>>
  /\ out = PrevFile
  /\ written = 0
  /\ exitCode = -1
  /\ body = <<>>
  /\ parsed = [threw |-> FALSE, results |-> <<>>]
  /\ reqs = <<>>
  /\ urls = <<>>
  /\ raised = "none"
  /\ pace = [last |-> "none", unpaced |-> FALSE]
  /\ failed = {}

\* const retailer = normalizeRetailer(productUrl), once for each URL
Classify ==
  /\ pc = "classify"
  /\ verdict' = [i \in 1..Len(probe) |-> RetailerOf(variant, probe[i])]
  /\ pc' = "classified"
  /\ UNCHANGED <<probe, variant, cands, quick, deduped, out, written, exitCode, body, parsed,
                 reqs, urls, raised, pace, failed>>

NextClassify == Classify

SpecClassify == InitClassify /\ [][NextClassify]_vars

-----------------------------------------------------------------------------
(* Properties of the classification *)

Classified == pc = "classified"

NextListedThird == {"img", "imgo"}

MatchersOf(v) ==
  CASE v \in {"img"} -> UNION {RETAILERS_img[i].match : i \in 1..Len(RETAILERS_img)}
    [] v = "imgo" -> UNION {RETAILERS_imgo[i].match : i \in 1..Len(RETAILERS_imgo)}
    [] v \in {"rss", "feeda"} ->
         UNION {ALLOWED_RETAILER_MATCH[i].match : i \in 1..Len(ALLOWED_RETAILER_MATCH)}
    [] v = "feedo" -> UNION {FEEDO_RULES[i].match : i \in 1..Len(FEEDO_RULES)}
    [] v = "hard" -> UNION {RETAILERS_hard[i].domains : i \in 1..Len(RETAILERS_hard)}
    [] v = "cdn" ->
         UNION {RETAILERS_cdn[i].web \cup RETAILERS_cdn[i].cdn : i \in 1..Len(RETAILERS_cdn)}

\* the hostname of the URL contains one of the variant's domain matchers
HostMatches(v, u) ==
  u.kind = "abs" /\ MatchersOf(v) \cap SubTok(LowerTok(u.host)) # {}

\* what a classifier returns for a URL of no configured retailer
Unclassified == {Null, "other"}

\* C18: domain classification depends only on the hostname of the product
\* URL: two URLs with the same hostname receive the same retailer, and a URL
\* whose hostname matches no configured domain matcher is never assigned a
\* configured retailer key because of text in its path or query string.
C18_ClassificationByHostname ==
  Classified =>
    /\ probe[1].host = probe[2].host => verdict[1] = verdict[2]
    /\ \A i \in 1..Len(probe) :
         ~HostMatches(variant, probe[i]) => verdict[i] \in Unclassified

\* the same statement for the two scripts that classify with retailerForUrl
HostnameClassifiers == {"hard", "cdn"}

ByHostname_retailerForUrl ==
  Classified /\ variant \in HostnameClassifiers =>
    /\ probe[1].host = probe[2].host => verdict[1] = verdict[2]
    /\ \A i \in 1..Len(probe) :
         ~HostMatches(variant, probe[i]) => verdict[i] \in Unclassified

-----------------------------------------------------------------------------
(* The relevance filter on its own: one search result, with the page that    *)
(* is fetched for it where the script fetches one, goes through the body of  *)
(* the script's collecting loop                                              *)

\* what the filter is handed: the result `it`, the fetched page or the site,
\* and whether the text that came with it (the page, or title and description
\* of the feed item) names the brand (lic) and an apparel keyword (app)
Input(it, page, lic, app) == [it |-> it, page |-> page, lic |-> lic, app |-> app]

NoPage == "<no page>"

\* a product page of no retailer, with an e-commerce word and no apparel word
pCars == U("shop.example.test", <<"hot-wheels-cars">>, <<>>, "")
\* a pin whose URL has the brand and no apparel word
pPinCars == U("www.pinterest.com", <<"pin", "hot-wheels-cars">>, <<>>, "")
\* the same on a page whose name has "product"
pCarsPage == U("shop.example.test", <<"hot-wheels-cars", "productpage.0101.html">>, <<>>, "")

TextHasBrand(text) == "hot wheels" \in text \/ "hotwheels" \in text

TextHasApparel_cdn(text) == \E k \in APPAREL_TERMS_cdn : k \in text

InputsOf(v) ==
  CASE v \in {"img", "imgo"} ->
         {Input(it, NoPage, FALSE, FALSE) :
            it \in Results_img \cup {Raw(pCars, iB), Raw(pPinCars, iB)}}
    [] v = "rss" ->
         {Input(it, NoPage, FALSE, FALSE) : it \in Results_rss \cup {Raw(pPinCars, iA)}}
    [] v \in {"feeda", "feedo"} ->
         {Input(url, page, lic, app) :
            url \in Links_feed \cup {pPin, pPinCars, pCars}, page \in Pages_feed,
            lic \in BOOLEAN, app \in BOOLEAN}
    [] v = "hard" ->
         {Input(link, page, page.lic, page.app) :
            link \in Links_hard \cup {pPinCars}, page \in Pages_hard}
    [] v = "cdn" ->
         {Input(it, page, page.lic \/ TextHasBrand(it.text), TextHasApparel_cdn(it.text)) :
            it \in Items_cdn \cup {Item(pCars, {"hot wheels"}), Item(pPinCars, {"hotwheels"}),
                                 Item(pCarsPage, {"hot wheels"}), Item(pPin, {"hot wheels"})},
            page \in Pages_cdn}
    [] v \in {"pw", "pw2"} ->
         {Input(a, "hm", FALSE, FALSE) : a \in Anchors_hm}
           \cup {Input(a, "next", FALSE, FALSE) : a \in Anchors_next}

\* the body of the variant's collecting loop on one input: what it pushes
KeptOf(v, p) ==
  CASE v = "img" -> Kept_img(p.it)
    [] v = "imgo" -> Kept_imgo(p.it)
    [] v = "rss" -> Kept_rss(p.it)
    [] v = "feeda" -> Kept_feeda(p.it, p.page)
    [] v = "feedo" -> Kept_feedo(p.it, p.page)
    [] v = "hard" -> Kept_hard(p.it, p.page)
    [] v = "cdn" -> Kept_cdn(p.it, p.page)
    [] v \in {"pw", "pw2"} -> Anchors(p.page, <<p.it>>)

InitFilter ==
  /\ variant \in Variants
  /\ pc = "filter"
  /\ probe \in InputsOf(variant)
  /\ verdict = <<>>
  /\ cands = <<>>
  /\ quick = <<>>
  /\ deduped = <<>>
  /\ out = PrevFile
  /\ written = 0
  /\ exitCode = -1
  /\ body = <<>>
  /\ parsed = [threw |-> FALSE, results |-> <<>>]
  /\ reqs = <<>>
  /\ urls = <<>>
  /\ raised = "none"
  /\ pace = [last |-> "none", unpaced |-> FALSE]
  /\ failed = {}

\* one pass of the collecting loop: the candidate is pushed or skipped; the
\* two image scripts throw on a product URL that is not a string
Filter ==
  /\ pc = "filter"
  /\ IF variant \in {"img", "imgo"} /\ Throws_img(probe.it)
     THEN pc' = "threw" /\ verdict' = <<>>
     ELSE pc' = "filtered" /\ verdict' = KeptOf(variant, probe)
  /\ UNCHANGED <<probe, variant, cands, quick, deduped, out, written, exitCode, body, parsed,
                 reqs, urls, raised, pace, failed>>

NextFilter == Filter

SpecFilter == InitFilter /\ [][NextFilter]_vars

-----------------------------------------------------------------------------
(* Properties of the relevance filter *)

\* the filter pushed a candidate
Kept == pc = "filtered" /\ verdict # <<>>

\* the brand (or "hot" with "wheel") occurs in the URL pair of the candidate
\* or in the text that came with it
BrandSeen ==
  \/ HasBrandPair(verdict[1].product_url, verdict[1].image_url)
  \/ (IncludesPair(verdict[1].product_url, verdict[1].image_url, "hot")
        /\ IncludesPair(verdict[1].product_url, verdict[1].image_url, "wheel"))
  \/ probe.lic

\* C19 as stated: in every variant a candidate reaches the accumulated list
\* only if a brand-presence test passed for it, whatever its retailer.
C19_KeptOnlyWithBrand == Kept => BrandSeen

\* the scripts that test every candidate for the brand
BrandGated == {"imgo", "hard", "cdn"}

\* C19, amended: a candidate reaches the accumulated list only if the brand
\* was found for it, in part_001's image script, part_002 and the second
\* script of part_003 for every retailer, and in the first image script for
\* Pinterest candidates only.
C19_KeptOnlyWithBrandWhereTested ==
  Kept /\ (variant \in BrandGated \/ (variant = "img" /\ verdict[1].retailer = "pinterest"))
    => BrandSeen

\* part_001's image script kept a candidate of `other` that has the brand
C19_Witness ==
  /\ Kept /\ BrandSeen
  /\ variant = "imgo" /\ verdict[1].retailer = "other"

\* the apparel keywords the variant configures; every list where it has none
ApparelTermsOf(v) ==
  CASE v = "img" -> apparelHints_img
    [] v = "imgo" -> APPAREL_TERMS_imgo
    [] v = "cdn" -> APPAREL_TERMS_cdn
    [] OTHER -> apparelHints_img \cup APPAREL_TERMS_imgo \cup APPAREL_TERMS_cdn

\* an apparel keyword occurs in the URL pair of the candidate or in the text
\* that came with it
ApparelSeen ==
  \/ \E k \in ApparelTermsOf(variant) :
        \/ IncludesPair(verdict[1].product_url, verdict[1].image_url, k)
        \/ IncludesPair(verdict[1].product_url, verdict[1].image_url, Unhyphen(k))
  \/ probe.app

\* the candidate is of Pinterest or of the fallback bucket
Noisy == verdict[1].retailer \in {"pinterest", "other"}

\* C20 as stated: every kept candidate classified as `pinterest` or as the
\* fallback `other` passed the apparel-keyword test: a keyword of the
\* configured apparel list occurs in its URL or page text.
C20_NoisyKeptOnlyWithApparel == Kept /\ Noisy => ApparelSeen

\* the e-commerce words otherLooksRelevant accepts in place of an apparel word
EcommerceHints ==
  {"/product", "/products", "product", "sku", "style", "item", "pid", "variant",
   "shop", "store", "cart"}

\* the URL patterns looksLikeHotWheels accepts in place of an apparel word
ProductPattern(u) ==
  Includes(u, "product") \/ HasSegSlash(u, "style") \/ HasSegSlash(u, "prd")

\* C20, amended: a kept `pinterest` candidate of the two Bing Images scripts
\* and of part_002 passed the apparel-keyword test; a kept `other` candidate
\* of part_001's image script passed it or has an e-commerce word in its
\* URLs; a kept `pinterest` or `other` candidate of the second script of
\* part_003 passed it or has "product", "style/" or "prd/" in its URL.
C20_NoisyKeptWithApparelOrHint ==
  Kept /\ Noisy =>
    /\ variant \in {"img", "hard"} => ApparelSeen
    /\ variant = "imgo" /\ verdict[1].retailer = "pinterest" => ApparelSeen
    /\ variant = "imgo" /\ verdict[1].retailer = "other" =>
         \/ ApparelSeen
         \/ containsAnyPair(verdict[1].product_url, verdict[1].image_url, EcommerceHints)
    /\ variant = "cdn" => ApparelSeen \/ ProductPattern(verdict[1].product_url)

\* the first image script kept a pin that has an apparel word
C20_Witness ==
  /\ Kept /\ ApparelSeen
  /\ variant = "img" /\ verdict[1].retailer = "pinterest"

\* the retailers of part_002 whose domains the hostname of the URL belongs to
RetailersOfHost(u) ==
  {i \in 1..Len(RETAILERS_hard) :
     LET d == domainOf(u) IN d # "" /\ HostDomains(d) \cap RETAILERS_hard[i].domains # {}}

\* C21: in part_002 every item added to `found` satisfies all gates at once:
\* the hostname of its URL belongs to a configured retailer, the URL matches
\* one of that retailer's productUrlPatterns, the fetch succeeded, the page
\* text has the licence name and an apparel keyword, and the image is
\* non-empty; a URL failing any gate is never kept.
C21_FoundPassedAllGates ==
  Kept /\ variant = "hard" =>
    LET item == verdict[1] IN
      /\ item.product_url = normUrl_hard(probe.it)
      /\ \E i \in RetailersOfHost(item.product_url) :
            /\ RETAILERS_hard[i].key = item.retailer
            /\ isLikelyProductUrl(item.product_url, RETAILERS_hard[i].key)
      /\ probe.page.ok /\ probe.page.lic /\ probe.page.app
      /\ item.image_url # EmptyStr
      /\ item.image_url \in {probe.page.og, probe.page.fb}

\* part_002 kept a product page of Next for the image of its page
C21_Witness ==
  /\ Kept /\ variant = "hard"
  /\ verdict[1].retailer = "next" /\ probe.page.og = EmptyStr /\ verdict[1].image_url = iCdn

-----------------------------------------------------------------------------
(* The RSS script from the feed text on: parseBingRssItems                   *)
(* (collect-hotwheels.mjs 630-673) and main() (688-747) on one feed          *)

\* extractBetween and String.match return null: the tag is not in the item
Absent == [kind |-> "absent", host |-> "", path |-> <<>>, query |-> <<>>, hash |-> ""]
\* the tag is in the item with no url (src) attribute, or with an empty one
NoUrl == [kind |-> "nourl", host |-> "", path |-> <<>>, query |-> <<>>, hash |-> ""]
\* null, where a string is expected
NullStr == [kind |-> "null", host |-> "", path |-> <<>>, query |-> <<>>, hash |-> ""]

\* one <item> block: the text between <link> and </link> (the empty string
\* when it is blank), and the four places an image URL is looked for
Block(link, thumb, content, enc, img) ==
  [link |-> link, thumb |-> thumb, content |-> content, enc |-> enc, img |-> img]

\* decodeXml on one token: the entities become their characters
DecodeTok(t) == IF t = "w=1&amp;h=2" THEN "w=1&h=2" ELSE t

\* decodeXml(s), s a string
decodeXml(u) ==
  IF u.kind = "num" THEN u
  ELSE [u EXCEPT !.path = [i \in 1..Len(u.path) |-> DecodeTok(u.path[i])],
                 !.query = [i \in 1..Len(u.query) |-> DecodeTok(u.query[i])]]

\* extractAttr(tagText, "url"): null unless the attribute has a value
extractAttr(tag) == IF tag = NoUrl THEN NullStr ELSE decodeXml(tag)

\* !v for a string or null
Falsy(v) == v \in {NullStr, EmptyStr}

\* the mutated search: the sources are tried from the last to the first
ImageOfItem_reversed(b) ==
  LET s1 == IF b.img \notin {Absent, NoUrl} THEN decodeXml(b.img) ELSE NullStr
      s2 == IF ~Falsy(s1) THEN s1
            ELSE IF b.enc # Absent THEN extractAttr(b.enc) ELSE s1
      s3 == IF ~Falsy(s2) THEN s2
            ELSE IF b.content # Absent THEN extractAttr(b.content) ELSE s2
      s4 == IF ~Falsy(s3) THEN s3
            ELSE IF b.thumb # Absent THEN extractAttr(b.thumb) ELSE s3
  IN s4

\* the image URL of one item: steps 1) to 4) of parseBingRssItems
ImageOfItem(b) ==
  LET s1 == IF b.thumb # Absent THEN extractAttr(b.thumb) ELSE NullStr
      s2 == IF ~Falsy(s1) THEN s1
            ELSE IF b.content # Absent THEN extractAttr(b.content) ELSE s1
      s3 == IF ~Falsy(s2) THEN s2
            ELSE IF b.enc # Absent THEN extractAttr(b.enc) ELSE s2
      s4 == IF ~Falsy(s3) THEN s3
            ELSE IF b.img \notin {Absent, NoUrl} THEN decodeXml(b.img) ELSE s3
  IN s4

RECURSIVE RssFold(_, _)
\* the loop `for (const itemXml of all)` of parseBingRssItems
RssFold(blocks, items) ==
  IF blocks = <<>> THEN items
  ELSE LET b == Head(blocks)
           product_url == IF b.link \in {Absent, EmptyStr} THEN NullStr ELSE decodeXml(b.link)
           image_url == ImageOfItem(b)
       IN IF ~Falsy(product_url) /\ ~Falsy(image_url)
          THEN RssFold(Tail(blocks), Append(items, Raw(product_url, image_url)))
          ELSE RssFold(Tail(blocks), items)

parseBingRssItems(xml) == RssFold(xml, <<>>)

pNextAbc == U("www.next.co.uk", <<"style", "abc", "123">>, <<>>, "")
pBlog    == U("example-blog.test", <<"post">>, <<>>, "")
iAmp     == U("img.hotwheels.test", <<"a.jpg">>, <<"w=1&amp;h=2">>, "")

\* every shape of one item
AllBlocks ==
  {Block(link, thumb, content, enc, img) :
     link \in {Absent, EmptyStr, pNextAbc, pBlog},
     thumb \in {Absent, NoUrl, iThumb}, content \in {Absent, NoUrl, iA},
     enc \in {Absent, NoUrl, iB}, img \in {Absent, NoUrl, iAmp}}

\* the two items of the end-to-end scenario, and a few more
bNextThumb == Block(pNextAbc, iThumb, Absent, Absent, Absent)
bBlogBare  == Block(pBlog, Absent, Absent, Absent, Absent)
bNextEnc   == Block(pNextAbc, NoUrl, Absent, iB, iAmp)
bBlogImg   == Block(pBlog, Absent, Absent, Absent, iAmp)
bNoLink    == Block(Absent, iThumb, iA, Absent, Absent)

FewBlocks == {bNextThumb, bBlogBare, bNextEnc, bBlogImg, bNoLink}

\* longest feed of several items
MaxBlocks == 2

\* the feed texts the model draws from
Feeds ==
  {<<b>> : b \in AllBlocks} \cup UNION {[1..n -> FewBlocks] : n \in 0..MaxBlocks}

InitRss ==
  /\ variant = "rss"
  /\ pc = "search"
  /\ body \in Feeds
  /\ parsed = [threw |-> FALSE, results |-> <<>>]
  /\ cands = <<>>
  /\ quick = <<>>
  /\ deduped = <<>>
  /\ out = PrevFile
  /\ written = 0
  /\ exitCode = -1
  /\ reqs = <<>>
  /\ urls = <<>>
  /\ raised = "none"
  /\ pace = [last |-> "none", unpaced |-> FALSE]
  /\ failed = {}
  /\ probe = <<>>
  /\ verdict = <<>>

\* one source of main() (lines 697-736) when the search engine answers every
\* query with the feed `body`: collectFromBingRss in try/catch, the status
\* only logged, the loop left once collected has MAX_ITEMS items
Fetch_rss ==
  /\ variant = "rss" /\ pc = "search" /\ Len(reqs) < MaxRequests
  /\ Len(cands) < MAX_ITEMS
  /\ \E outcome \in Outcomes :
       LET rssItems == parseBingRssItems(body)
           kept == Slice(Flatten([i \in 1..Len(rssItems) |-> Kept_rss(rssItems[i])]),
                         MAX_ITEMS - Len(cands))
       IN IF outcome = "error"
          THEN /\ reqs' = Append(reqs, Req(outcome, 0))
               /\ pace' = Paced(pace, <<Request>>)
               /\ UNCHANGED <<cands, parsed>>
          ELSE /\ reqs' = Append(reqs, Req(outcome, Len(kept)))
               /\ cands' = cands \o kept
               /\ parsed' = [threw |-> FALSE, results |-> rssItems]
               /\ pace' = Paced(pace, IF Len(cands) + Len(kept) >= MAX_ITEMS
                                      THEN <<Request>> ELSE <<Request, Sleep>>)
  /\ UNCHANGED <<probe, verdict, failed, raised, variant, pc, quick, deduped, out, written,
                 exitCode, body, urls>>

NextRss ==
  \/ Fetch_rss
  \/ EndSearch
  \/ Finish_rss
  \/ LogFails

SpecRss == InitRss /\ [][NextRss]_vars

-----------------------------------------------------------------------------
(* Properties of the RSS script *)

\* some source of the run got the feed
FeedParsed == \E i \in 1..Len(reqs) : reqs[i].outcome # "error"

\* the feed of the scenario: the Next item with a thumbnail, the blog item
\* with no image tag
ScenarioFeed == <<bNextThumb, bBlogBare>>

\* C22: for an RSS body with two <item> blocks, one linking to
\* https://www.next.co.uk/style/abc/123 with a thumbnail image and one linking
\* to https://example-blog.test/post with no image tag, the RSS pipeline
\* writes exactly one item, with retailer `next`, and drops the second.
C22_ScenarioWritesOneNextItem ==
  OutputWritten /\ body = ScenarioFeed /\ FeedParsed =>
    out = <<Cand("next", pNextAbc, iThumb)>>

\* the run on the scenario's feed ended with the file written
C22_Witness ==
  /\ OutputWritten /\ body = ScenarioFeed /\ FeedParsed
  /\ Len(out) = 1 /\ out[1].retailer = "next"

\* the four places of an item in the order of the claim
SourcesOf(b) == <<b.thumb, b.content, b.enc, b.img>>

\* the place holds a URL
HasUrl(v) == v.kind \in {"abs", "rel"} /\ v # EmptyStr

\* the first place of the item that holds a URL
FirstSource(b) ==
  LET S == {j \in 1..Len(SourcesOf(b)) : HasUrl(SourcesOf(b)[j])}
  IN SourcesOf(b)[CHOOSE j \in S : \A k \in S : j <= k]

\* the item has a link and an image in some place
Returned(b) == HasUrl(b.link) /\ \E j \in 1..Len(SourcesOf(b)) : HasUrl(SourcesOf(b)[j])

\* the items of the feed that are returned, in the order of the feed
ReturnedOf(xml) == SelectSeq(xml, LAMBDA b : Returned(b))

\* C23: for every <item> block parseBingRssItems takes the image URL from the
\* first non-empty source in the order media:thumbnail url, media:content
\* url, enclosure url, <img src> of the description; a source that is present
\* but yields no URL falls through to the next; an item with no link or no
\* image from any source is not returned.
C23_FirstNonEmptySourceWins ==
  variant = "rss" /\ FeedParsed =>
    /\ Len(parsed.results) = Len(ReturnedOf(body))
    /\ \A k \in 1..Len(parsed.results) :
         /\ parsed.results[k].product_url = decodeXml(ReturnedOf(body)[k].link)
         /\ parsed.results[k].image_url = decodeXml(FirstSource(ReturnedOf(body)[k]))

\* a thumbnail tag with no url, no media:content, an enclosure and an <img>:
\* the enclosure gave the image
C23_Witness ==
  /\ FeedParsed /\ body = <<bNextEnc>>
  /\ parsed.results = <<Raw(pNextAbc, iB)>>

-----------------------------------------------------------------------------
(* Properties of the fast image dedupe *)

\* the scripts with a dedupe on the image URL alone
ImageDedupers == {"img", "imgo", "cdn"}

\* the run reached its end with no exception
EndedNormally == pc = "done" /\ raised = "none"

\* what the image dedupe of the variant is handed, and what it returns:
\* part_003 drops the hash of both URLs first
DedupeInput ==
  IF variant = "cdn" THEN [i \in 1..Len(cands) |-> Normed_cdn(cands[i])] ELSE cands

Survivors == IF variant = "cdn" THEN deduped ELSE quick

\* the image URL as the dedupe compares it: part_003 strips the query
SeenKey(c) == IF variant = "cdn" THEN stripImageParams(c.image_url) ELSE c.image_url

\* the positions of the first candidate of every image URL
FirstCarriers ==
  {i \in 1..Len(DedupeInput) :
     \A j \in 1..(i - 1) : SeenKey(DedupeInput[j]) # SeenKey(DedupeInput[i])}

\* the k-th of these positions
Carrier(k) ==
  CHOOSE i \in FirstCarriers : Cardinality({j \in FirstCarriers : j < i}) = k - 1

\* C24: after the quick image dedupe of a run no two surviving candidates
\* have the same image URL, the survivor for each image URL is the first
\* candidate that carried it, and the survivors keep their input order.
C24_FirstOfEachImageSurvives ==
  EndedNormally /\ variant \in ImageDedupers =>
    /\ \A i, j \in 1..Len(Survivors) :
         i # j => Survivors[i].image_url # Survivors[j].image_url
    /\ Len(Survivors) = Cardinality(FirstCarriers)
    /\ \A k \in 1..Len(Survivors) : Survivors[k] = DedupeInput[Carrier(k)]

\* three candidates, the first and the last with one image: two survive
C24_Witness ==
  /\ EndedNormally /\ variant \in {"img", "imgo"}
  /\ Len(cands) = 3 /\ cands[1].image_url = cands[3].image_url
  /\ cands[1].product_url # cands[3].product_url
  /\ Len(quick) = 2

-----------------------------------------------------------------------------
(* Properties of the output file *)

\* C25: in part_003 with KEEP_PREVIOUS_ON_EMPTY a run whose final item list
\* is empty leaves the output file as it was before the run; the file is
\* never replaced by an empty array, on the normal path or on the top-level
\* error path.
C25_EmptyRunKeepsPreviousFile ==
  variant = "cdn" =>
    /\ out # <<>>
    /\ pc = "done" /\ dedupe_cdn(cands) = <<>> => out = PrevFile /\ written = 0

\* part_003 made its requests, found nothing and ended with the file as it was
C25_Witness ==
  /\ variant = "cdn" /\ pc = "done" /\ raised = "none" /\ exitCode = 0
  /\ Len(reqs) > 0 /\ cands = <<>>
  /\ out = PrevFile /\ written = 0

\* C26: in every variant the output file is written at most once per run,
\* after all collection and deduplication are finished; once the final item
\* list is written no later step of the run, the top-level error handler
\* included, replaces the content of the file.
C26_OutputWrittenOnce ==
  /\ written <= 1
  /\ written > 0 => pc = "done"

\* the same for every script but part_002, whose handler writes "[]"
WrittenOnce_exceptHard == variant # "hard" => C26_OutputWrittenOnce

\* the fields of an output item
OutputFields == {"retailer", "product_url", "image_url"}

\* C27: every object written to the output file has exactly the three fields
\* retailer, product_url and image_url; the internal _score field added by
\* dedupeByStyleKeepBest is never present in an output item.
C27_ExactlyThreeFields ==
  OutputWritten => \A i \in 1..Len(out) : DOMAIN out[i] = OutputFields

\* the first image script wrote the best candidate of a style it had two of
C27_Witness ==
  /\ OutputWritten /\ variant = "img"
  /\ Len(quick) = 2 /\ Len(deduped) = 1 /\ Len(out) = 1
  /\ "_score" \notin DOMAIN out[1]

-----------------------------------------------------------------------------
(* Properties of the per-retailer cap *)

\* part_001: the list applyPerRetailerCap is handed in step 5
CapInput == SortByScoreDesc(deduped, <<>>)

\* the positions of CapInput with fewer than cap items of the same retailer
\* before them
UnderCap ==
  {i \in 1..Len(CapInput) :
     Cardinality({j \in 1..(i - 1) : CapInput[j].retailer = CapInput[i].retailer})
       < PER_RETAILER_CAP(CapInput[i].retailer)}

\* the k-th of these positions
UnderCapAt(k) == CHOOSE i \in UnderCap : Cardinality({j \in UnderCap : j < i}) = k - 1

\* C28: in part_001 the output holds at most PER_RETAILER_CAP[r] items of
\* every retailer r (the default cap for a retailer absent from the table),
\* and applyPerRetailerCap keeps, for each retailer, the first items of its
\* input list in their input order.
C28_PerRetailerCap ==
  OutputWritten /\ variant = "imgo" =>
    /\ \A i \in 1..Len(out) :
         Cardinality({j \in 1..Len(out) : out[j].retailer = out[i].retailer})
           <= PER_RETAILER_CAP(out[i].retailer)
    /\ Len(applyPerRetailerCap(CapInput)) = Cardinality(UnderCap)
    /\ \A k \in 1..Cardinality(UnderCap) :
         applyPerRetailerCap(CapInput)[k] = CapInput[UnderCapAt(k)]

\* dedupe left more items of one retailer than its cap, and the run wrote
\* the first of them
C28_Witness ==
  /\ OutputWritten /\ variant = "imgo"
  /\ Cardinality(UnderCap) < Len(CapInput)
  /\ Len(out) > 0 /\ out[1].product_url = CapInput[1].product_url

-----------------------------------------------------------------------------
(* The dedupe by (retailer, product_url) on a collected list *)

DedupeVariants == {"rss", "feeda", "feedo", "pw2"}

\* collected items: every one has a retailer, a product URL and an image
DedupeItems ==
  {Cand(r.key, r.url, i) :
     r \in {[key |-> "next", url |-> pNextAbc], [key |-> "next", url |-> pNextAq],
            [key |-> "hm", url |-> pHmB]},
     i \in {iThumb, iAmp}}

DedupeLists ==
  UNION {[1..n -> DedupeItems] : n \in 0..MaxCands}

\* dedupe(list) of the variant
DedupeOf(v, list) ==
  CASE v = "rss" -> dedupe_rss(list)
    [] v = "feeda" -> dedupe_feeda(list)
    [] v = "feedo" -> dedupe_feedo(list)
    [] v = "pw2" -> dedupe_pw2(list)

InitDedupe ==
  /\ variant \in DedupeVariants
  /\ pc = "dedupe"
  /\ cands \in DedupeLists
  /\ probe = <<>>
  /\ verdict = <<>>
  /\ quick = <<>>
  /\ deduped = <<>>
  /\ out = PrevFile
  /\ written = 0
  /\ exitCode = -1
  /\ body = <<>>
  /\ parsed = [threw |-> FALSE, results |-> <<>>]
  /\ reqs = <<>>
  /\ urls = <<>>
  /\ raised = "none"
  /\ pace = [last |-> "none", unpaced |-> FALSE]
  /\ failed = {}

\* const final = dedupe(collected)
Dedupe ==
  /\ pc = "dedupe"
  /\ pc' = "deduped"
  /\ deduped' = DedupeOf(variant, cands)
  /\ UNCHANGED <<probe, verdict, failed, pace, raised, variant, cands, quick, out, written,
                 exitCode, body, parsed, reqs, urls>>

NextDedupe == Dedupe

SpecDedupe == InitDedupe /\ [][NextDedupe]_vars

\* the positions of cands that hold the first occurrence of their pair
FirstOfPair ==
  {i \in 1..Len(cands) : \A j \in 1..(i - 1) : PairKey(cands[j]) # PairKey(cands[i])}

\* the k-th of them
FirstOfPairAt(k) ==
  CHOOSE i \in FirstOfPair : Cardinality({j \in FirstOfPair : j < i}) = k - 1

\* the last position of cands that holds the pair of position i
LastOfPair(i) ==
  LET same == {j \in 1..Len(cands) : PairKey(cands[j]) = PairKey(cands[i])}
  IN CHOOSE j \in same : \A l \in same : l <= j

\* C29: the RSS and feed scripts return one item per (retailer, product_url)
\* pair, the pairs in the order of their first occurrence, each with the item
\* of its last occurrence; part_004 returns the item of the first occurrence
C29_LastKeptAtFirstPlace ==
  pc = "deduped" =>
    /\ \A i, j \in 1..Len(deduped) : PairKey(deduped[i]) = PairKey(deduped[j]) => i = j
    /\ Len(deduped) = Cardinality(FirstOfPair)
    /\ \A k \in 1..Len(deduped) :
         deduped[k] = IF variant = "pw2" THEN cands[FirstOfPairAt(k)]
                      ELSE cands[LastOfPair(FirstOfPairAt(k))]

\* the RSS script deduped a list whose first and third items share a pair and
\* differ in image: the third item came out first
C29_Witness ==
  /\ pc = "deduped" /\ variant = "rss" /\ Len(cands) = 3
  /\ PairKey(cands[1]) = PairKey(cands[3])
  /\ PairKey(cands[1]) # PairKey(cands[2])
  /\ cands[1] # cands[3]
  /\ deduped = <<cands[3], cands[2]>>

\* part_004 deduped such a list: the first item came out first
FirstKept_pw2 ==
  /\ pc = "deduped" /\ variant = "pw2" /\ Len(cands) = 3
  /\ PairKey(cands[1]) = PairKey(cands[3])
  /\ cands[1] # cands[3]
  /\ deduped = <<cands[1], cands[2]>>

-----------------------------------------------------------------------------
(* Properties of the Playwright collection steps *)

Playwright == {"pw", "pw2"}

\* the H&M step threw and the run is over for no reason of the log or of
\* the write of the output file
HmFailed ==
  /\ variant \in Playwright /\ pc = "done"
  /\ reqs # <<>> /\ reqs[1].outcome = "error"
  /\ raised \notin {"log", "write"}

\* C30: when the H&M step of a Playwright script throws, the Next step still
\* runs and the output file is written with the items gathered, also when
\* the debug capture of the catch block fails
C30_HmFailureStopsNothing ==
  HmFailed =>
    /\ Len(reqs) = Cardinality(Sites)
    /\ written = 1
    /\ \A i \in 1..Len(out) : \E j \in 1..Len(cands) :
         /\ out[i].retailer = cands[j].retailer
         /\ out[i].product_url = cands[j].product_url

\* the same of the script that captures nothing in its catch blocks
HmFailureStopsNothing_pw2 == variant = "pw2" => C30_HmFailureStopsNothing

\* the H&M step threw, the Next step ran and its items were written
HmFailedNextWritten ==
  /\ HmFailed /\ Len(reqs) = Cardinality(Sites) /\ reqs[2].got > 0
  /\ written = 1 /\ out # <<>>

\* the H&M step threw, the capture failed: no Next step and no output file
HmFailedCaptureFailed ==
  /\ HmFailed /\ variant = "pw" /\ raised = "other"
  /\ Len(reqs) = 1 /\ written = 0 /\ exitCode = 1

====
